---------------------------- MODULE Spec2Model ----------------------------
(***************************************************************************)
(* A model of the generative-agents runtime.                               *)
(*                                                                         *)
(* Part 1 models SimulationScheduler (generative_agents/simulation.py):    *)
(* its constructor, run(), stop() and the per-agent task _run_agent_tick,  *)
(* at the granularity of asyncio's suspension points (the awaits).  The    *)
(* model follows one scheduler object from construction through one call   *)
(* of run(); stop() may be called at any moment.  The tasks of a round     *)
(* enter the semaphore in the order in which run() created them (asyncio   *)
(* starts tasks and wakes semaphore waiters first-come first-served);      *)
(* which of the tasks waiting for the write lock proceeds next is left     *)
(* open, and so is how long a tick or a callback takes.                    *)
(* FairSpec is the scheduler with ticks and callbacks that all return,     *)
(* under the fairness of the event loop.                                   *)
(*                                                                         *)
(* Part 2 models VisualPerceptionService.capture_and_describe              *)
(* (generative_agents/perception.py).                                      *)
(*                                                                         *)
(* Part 3 models EmbeddingClient.embed_texts with its batching and its     *)
(* bounded retries (generative_agents/embeddings.py).                      *)
(*                                                                         *)
(* Part 4 models the functions of retrieval.py, reflection.py and          *)
(* planning.py.                                                            *)
(*                                                                         *)
(* Part 5 models the Agent of agent.py and its tick.                       *)
(*                                                                         *)
(* Part 6 models run_dialogue (generative_agents/dialogue.py).             *)
(*                                                                         *)
(* Part 7 models the memories of SQLiteStore                               *)
(* (generative_agents/storage/sqlite_store.py).                            *)
(***************************************************************************)
EXTENDS Integers, Sequences, FiniteSets, TLC

(***************************************************************************)
(* Bounds of the model.                                                    *)
(***************************************************************************)
\* run(total_ticks) is called with total_ticks in 0..MaxTicks
MaxTicks == 2
\* at most MaxFailures tasks of a round raise
MaxFailures == 1
\* at most MaxCaptures calls of capture_and_describe are made
MaxCaptures == 4
\* at most MaxBackendFailures calls of the vision backend raise
MaxBackendFailures == 1
\* ConstructorSpec calls the constructor with 0..MaxAgents+ExtraAgents agents
\* and with max_concurrency in -1..MaxAgents+ExtraAgents
ExtraAgents == 2
\* embed_texts is called with at most MaxTexts texts, by a client built with
\* batch_size in 0..MaxTexts
MaxTexts == 3
\* the client is built with max_retries in -1..MaxRetriesArg
MaxRetriesArg == 2
\* the retrieval, reflection and planning functions are applied to lists of at
\* most MaxMemories memories
MaxMemories == 4
\* ActionStep is called with duration_minutes in 0..MaxDurationArg
MaxDurationArg == 16
\* an agent is ticked at most MaxAgentTicks times
MaxAgentTicks == 2
\* the agent's clock runs from hour 0 to hour MaxClock
MaxClock == 2
\* run_dialogue is called with turns in -1..MaxTurns
MaxTurns == 3
\* at most MaxDialogueFailures calls of speak or of the store raise
MaxDialogueFailures == 1
\* at most MaxUpserts calls of upsert_memory are made
MaxUpserts == 2

(***************************************************************************)
(* Program constants.                                                      *)
(***************************************************************************)
\* simulation.py:39  "if not 5 <= len(agents) <= 25"
MinAgents == 5
MaxAgents == 25
\* perception.py:108  the length of hashlib.sha256().hexdigest()
HashLen == 64
\* embeddings.py:12  DEFAULT_BATCH_SIZE
DefaultBatchSize == 32
\* agent.py:22  "top_k: int = 5"
DefaultTopK == 5
\* reflection.py:18  "max_insights: int = 3"
DefaultMaxInsights == 3
\* sqlite_store.py:249  "limit: int = 20"
DefaultLimit == 20
\* reflection.py:9  REFLECTION_TRIGGER_THRESHOLD = 150.0
ReflectionTriggerThreshold == 150

VARIABLES
    \* ---- the constructor call and its outcome
    phase,              \* "new" | "constructed" | "rejected"
    ctorArgs,           \* the arguments the constructor was called with
    ctorError,          \* "none" | the ValueError raised
    \* ---- fields of SimulationScheduler
    agents,             \* self.agents: agent_id -> agent object (its index in the list)
    tick_interval_s,    \* self.tick_interval_s
    max_concurrency,    \* self.max_concurrency
    persist_callback,   \* self.persist_callback is not None
    running,            \* self._running
    write_lock,         \* self._write_lock.locked()
    latest_snapshot,    \* self._latest_snapshot
    \* ---- the run() invocation and its locals
    runPc,              \* "idle" | "gather" | "sleep" | "returned" | "raised"
    total_ticks,
    tick_index,
    history,
    semaphore,          \* free slots of the asyncio.Semaphore of this run
    tasks,              \* agent_id -> [pc, result] of the round's task
    gatherExc,          \* the exception asyncio.gather has been completed with
    returnValue,        \* the list run() returned
    raisedExc,          \* the exception run() raised
    \* ---- observation of the run (history variables)
    persisted,          \* <<agent_id, tick_index>> -> the results the callback was invoked with
    tickBegun,          \* round -> agent ids whose tick was started
    taskEnded,          \* round -> agent ids whose task has ended
    taskFailed,         \* round -> agent ids whose task raised
    stopAt,             \* where run() was at the first stop() issued during it
    sleeps              \* rounds after which run() slept

schedVars == << phase, ctorArgs, ctorError, agents, tick_interval_s, max_concurrency,
                persist_callback, running, write_lock, latest_snapshot, runPc,
                total_ticks, tick_index, history, semaphore, tasks, gatherExc,
                returnValue, raisedExc, persisted, tickBegun, taskEnded,
                taskFailed, stopAt, sleeps >>

VARIABLES
    \* ---- fields of VisualPerceptionService
    glance_interval_ticks,  \* self.glance_interval_ticks
    change_threshold,       \* self.change_threshold, in hundredths
    cache,                  \* self._cache: agent_id -> VisionCacheState
    \* ---- the capture_and_describe calls
    inference,              \* agent_id -> the backend call that agent's capture awaits
    llmCalls,               \* backend calls made so far (FakeLLMClient.calls)
    captures                \* agent_id -> that agent's captures so far, in order

percVars == << glance_interval_ticks, change_threshold, cache, inference,
               llmCalls, captures >>

VARIABLES
    \* ---- fields of EmbeddingClient
    model_name,             \* self.model_name
    batch_size,             \* self.batch_size
    max_retries,            \* self.max_retries
    retry_backoff_s,        \* self.retry_backoff_s, in milliseconds
    \* ---- the embed_texts call and its locals
    texts,
    embPc,                  \* "idle" | "request" | "sleep" | "returned" | "raised"
    start,
    vectors,
    attempt,                \* the local of _embed_with_retry
    embResult,              \* the list embed_texts returned
    embError,               \* the exception embed_texts raised
    \* ---- observation of the call (history variable)
    embLog                  \* the backend requests and the sleeps, in order

embVars == << model_name, batch_size, max_retries, retry_backoff_s, texts, embPc,
              start, vectors, attempt, embResult, embError, embLog >>

VARIABLES
    \* ---- the arguments of retrieval, reflection and planning
    memories,                   \* list[Memory]
    relevance_by_embedding_ref, \* embedding_vector_ref -> relevance, in thousandths
    \* ---- the last call and its outcome
    called,                     \* the function called last, or "none"
    args,                       \* top_k, max_insights, duration_minutes of that call
    retrieved,                  \* the list retrieve_top_memories returned
    triggered,                  \* the value should_trigger_reflection returned
    insights,                   \* the list generate_high_level_insights returned
    agenda,                     \* the DailyAgenda generate_hierarchical_plan returned
    step,                       \* the ActionStep built, or the ValidationError
    recency_call                \* the call of recency_score made and its value

cogVars == << memories, relevance_by_embedding_ref, called, args, retrieved,
              triggered, insights, agenda, step, recency_call >>

VARIABLES
    \* ---- fields of Agent
    self_memories,              \* self.memories
    self_insights,              \* self.insights
    current_plan,               \* self.current_plan, NoAgenda for None
    \* ---- the clock and the calls
    clock,                      \* datetime.now(timezone.utc), in hours
    tickPc,                     \* "idle" | "sleeping": the position of the tick
    tick_results,               \* the dictionaries the ticks returned, in order
    selected,                   \* the last call of select_action by a client
    \* ---- observation of the ticks (history variable)
    tick_log                    \* per tick: its argument, self.memories before
                                \* and after, and its result

agentVars == << self_memories, self_insights, current_plan, clock, tickPc,
                tick_results, selected, tick_log >>

VARIABLES
    \* ---- the run_dialogue call and its locals
    dlgArgs,                    \* the arguments of the call
    dlgPc,                      \* "idle" | "speaking" | "persisting" | "returned" | "raised"
    convo_id,
    roles,                      \* the locals speaker and listener
    turn_index,
    transcript,
    dlgResult,                  \* the list run_dialogue returned
    dlgFailures,                \* the calls that raised so far
    \* ---- observation of the call (history variables)
    asked,                      \* the speak calls made, in order, each with the
                                \* number of turns the store had by then
    added_turns                 \* the turns the store was given, in order

dlgVars == << dlgArgs, dlgPc, convo_id, roles, turn_index, transcript, dlgResult,
              dlgFailures, asked, added_turns >>

VARIABLES
    \* ---- fields of SQLiteStore and its database
    connected,                  \* self._conn is not None
    memory_rows,                \* the table memories: memory_id -> row
    evidence_rows,              \* the table evidence_pointers, by id
    \* ---- the environment of the store
    uuids,                      \* the identifiers drawn so far
    store_clock,                \* _utc_now_iso()
    \* ---- the calls
    got,                        \* the last get_agent_memories call and its list
    store_error,                \* the error the last call raised, or "none"
    \* ---- observation of the calls (history variable)
    upsert_log                  \* per upsert_memory that returned: its argument,
                                \* the id returned, the memory as stored then

storeVars == << connected, memory_rows, evidence_rows, uuids, store_clock, got,
                store_error, upsert_log >>

VARIABLES
    \* ---- what the caller of the scheduler did before run()
    stopped_idle                \* stop() was called while no run was in progress

callerVars == << stopped_idle >>

vars == << schedVars, percVars, embVars, cogVars, agentVars, dlgVars, storeVars,
           callerVars >>

\* the variables a component's actions leave alone
outsideScheduler == << percVars, embVars, cogVars, agentVars, dlgVars, storeVars,
    callerVars >>
outsidePerception == << schedVars, embVars, cogVars, agentVars, dlgVars, storeVars,
    callerVars >>
outsideEmbedding == << schedVars, percVars, cogVars, agentVars, dlgVars, storeVars,
    callerVars >>
outsideCognition == << schedVars, percVars, embVars, agentVars, dlgVars, storeVars,
    callerVars >>
outsideAgent == << schedVars, percVars, embVars, cogVars, dlgVars, storeVars,
    callerVars >>
outsideDialogue == << schedVars, percVars, embVars, cogVars, agentVars, storeVars,
    callerVars >>
outsideStore == << schedVars, percVars, embVars, cogVars, agentVars, dlgVars,
    callerVars >>

----------------------------------------------------------------------------
(***************************************************************************)
(* Values.                                                                 *)
(***************************************************************************)
Min(a, b) == IF a <= b THEN a ELSE b

\* Python's None, for the Optional fields modelled here
None == [tick_index |-> -1, agent_outputs |-> << >>]

NoArgs == [agents |-> << >>, max_concurrency |-> 0, tick_interval_s |-> 0,
           persist_callback |-> FALSE]

\* agents a0, a1, ... with pairwise distinct ids, as the tests build them
DistinctAgents(n) == [i \in 1..n |-> i]

\* the same list with the last agent carrying the id of the one before it
DuplicateIdAgents(n) == [i \in 1..n |-> IF i = n /\ n > 1 THEN n - 1 ELSE i]

\* what the stub agent of the tests returns from tick(tick_index)
TickResult(obj, k) == [agent |-> obj, tick |-> k]

Rounds == 0..(MaxTicks - 1)

\* no exception
NoExc == [agent_id |-> 0, round |-> -1, raised_by |-> "none"]

\* stop() has not been called during run()
NoStop == [round |-> -1, during |-> "none"]

----------------------------------------------------------------------------
(***************************************************************************)
(* SimulationScheduler.__init__                                            *)
(***************************************************************************)
\* (variant: the range taken exclusive of its ends)
PopulationAcceptedExclusive(n) == MinAgents < n /\ n < MaxAgents

\* "if not 5 <= len(agents) <= 25: raise ValueError"
PopulationAccepted(n) == MinAgents <= n /\ n <= MaxAgents

\* (variant: the constructor without its check of max_concurrency)
AnyConcurrencyAccepted(c) == TRUE

\* "if max_concurrency < 1: raise ValueError"
ConcurrencyAccepted(c) == ~ (c < 1)

\* (variant: the requested value kept as it is)
UncappedConcurrency(c, n) == c

\* "self.max_concurrency = min(max_concurrency, len(agents))"
EffectiveConcurrency(c, n) == Min(c, n)

\* "self.agents = {agent.agent_id: agent for agent in agents}": a later agent
\* of the list replaces an earlier one that carries the same agent_id
AgentDict(list) ==
    [id \in {list[i] : i \in DOMAIN list} |->
        CHOOSE i \in DOMAIN list :
            /\ list[i] = id
            /\ \A j \in DOMAIN list : list[j] = id => j <= i]

Construct(list, c, interval, cb) ==
    /\ phase = "new"
    /\ ctorArgs' = [agents |-> list, max_concurrency |-> c,
                    tick_interval_s |-> interval, persist_callback |-> cb]
    /\ IF ~ PopulationAccepted(Len(list))
         THEN /\ phase' = "rejected"
              /\ ctorError' = "ValueError: agents"
              /\ UNCHANGED << agents, tick_interval_s, max_concurrency,
                              persist_callback >>
         ELSE IF ~ ConcurrencyAccepted(c)
         THEN /\ phase' = "rejected"
              /\ ctorError' = "ValueError: max_concurrency"
              /\ UNCHANGED << agents, tick_interval_s, max_concurrency,
                              persist_callback >>
         ELSE /\ phase' = "constructed"
              /\ ctorError' = "none"
              /\ agents' = AgentDict(list)
              /\ tick_interval_s' = interval
              /\ max_concurrency' = EffectiveConcurrency(c, Len(list))
              /\ persist_callback' = cb
    \* _running = False, _write_lock = Lock(), _latest_snapshot = None
    /\ UNCHANGED << running, write_lock, latest_snapshot, runPc, total_ticks,
                    tick_index, history, semaphore, tasks, gatherExc,
                    returnValue, raisedExc, persisted, tickBegun, taskEnded,
                    taskFailed, stopAt, sleeps >>
    /\ UNCHANGED outsideScheduler

----------------------------------------------------------------------------
(***************************************************************************)
(* SimulationScheduler.run                                                 *)
(***************************************************************************)
NewTask == [pc |-> "created", result |-> None]

\* "tasks = [asyncio.create_task(self._run_agent_tick(...)) for agent_id, agent
\*  in self.agents.items()]"
CreateTasks == [id \in DOMAIN agents |-> NewTask]

\* (variant: the range one round short)
KeepLoopingOneShort(k, total) == k < total - 1 /\ running

\* (variant: the loop head without the "if not self._running: break")
KeepLoopingIgnoringStop(k, total) == k < total

\* the loop head: "for tick_index in range(total_ticks): if not self._running: break"
KeepLooping(k, total) == k < total /\ running

\* "if tick_index < total_ticks - 1 and self.tick_interval_s > 0"
ShouldSleep(k, total) == k < total - 1 /\ tick_interval_s > 0

\* (variant: the tasks are created and not awaited)
GatherNotAwaited == TRUE

\* (variant: asyncio.wait(tasks, return_when=FIRST_COMPLETED))
GatherFirstCompleted == \E id \in DOMAIN tasks : tasks[id].pc = "done"

\* (variant: asyncio.gather(*tasks, return_exceptions=True))
GatherReturnExceptions == \A id \in DOMAIN tasks : tasks[id].pc \in {"done", "failed"}

\* asyncio.gather(*tasks) yields the results once every task has returned
GatherDone == \A id \in DOMAIN tasks : tasks[id].pc = "done"

\* "SimulationSnapshot(tick_index=tick_index, timestamp=...,
\*  agent_outputs={agent_id: result for agent_id, result in tick_results})"
\* (the wall-clock timestamp is left out)
Snapshot(k) ==
    [tick_index |-> k,
     agent_outputs |-> [id \in DOMAIN tasks |-> tasks[id].result]]

\* One pass through the loop head for index k, up to "await asyncio.gather";
\* leaving the loop runs "self._running = False; return history".
LoopHead(k, total, hist) ==
    IF KeepLooping(k, total)
      THEN /\ tick_index' = k
           /\ tasks' = CreateTasks
           /\ runPc' = "gather"
           /\ UNCHANGED << running, returnValue >>
      ELSE /\ running' = FALSE
           /\ runPc' = "returned"
           /\ returnValue' = hist
           /\ UNCHANGED << tick_index, tasks >>

\* (variant: run() without its "self._running = True")
RunningLeftAsItWas == running

\* "self._running = True" at the start of run()
RunningAtStart == TRUE

\* run(total): "if total_ticks <= 0: return []", else the set-up and the first
\* pass through the loop head (self._running has just been set)
RunStart(total) ==
    /\ phase = "constructed"
    /\ runPc = "idle"
    /\ total_ticks' = total
    /\ IF total <= 0
         THEN /\ runPc' = "returned"
              /\ returnValue' = << >>
              /\ UNCHANGED << running, history, semaphore, tick_index, tasks >>
         ELSE /\ running' = RunningAtStart
              /\ history' = << >>
              /\ semaphore' = max_concurrency
              /\ tick_index' = 0
              /\ tasks' = CreateTasks
              /\ runPc' = "gather"
              /\ UNCHANGED returnValue
    /\ UNCHANGED << phase, ctorArgs, ctorError, agents, tick_interval_s,
                    max_concurrency, persist_callback, write_lock,
                    latest_snapshot, gatherExc, raisedExc, persisted, tickBegun,
                    taskEnded, taskFailed, stopAt, sleeps >>
    /\ UNCHANGED outsideScheduler

\* "tick_results = await asyncio.gather(*tasks)" returns; the snapshot is
\* built, appended and published; then either the sleep or the next loop head
GatherReturn ==
    /\ runPc = "gather"
    /\ GatherDone
    /\ LET snapshot == Snapshot(tick_index)
           hist == Append(history, snapshot)
       IN  /\ history' = hist
           /\ latest_snapshot' = snapshot
           /\ IF ShouldSleep(tick_index, total_ticks)
                THEN /\ runPc' = "sleep"
                     /\ sleeps' = sleeps \cup {tick_index}
                     /\ UNCHANGED << running, returnValue, tick_index, tasks >>
                ELSE /\ LoopHead(tick_index + 1, total_ticks, hist)
                     /\ UNCHANGED sleeps
    /\ UNCHANGED << phase, ctorArgs, ctorError, agents, tick_interval_s,
                    max_concurrency, persist_callback, write_lock, total_ticks,
                    semaphore, gatherExc, raisedExc, persisted, tickBegun,
                    taskEnded, taskFailed, stopAt >>
    /\ UNCHANGED outsideScheduler

\* "await asyncio.gather(*tasks)" raises the first exception of a task; run()
\* has no handler, so the exception leaves run() (the other tasks are not
\* cancelled, and "self._running = False" is not reached)
GatherRaise ==
    /\ runPc = "gather"
    /\ gatherExc # NoExc
    /\ runPc' = "raised"
    /\ raisedExc' = gatherExc
    /\ UNCHANGED << phase, ctorArgs, ctorError, agents, tick_interval_s,
                    max_concurrency, persist_callback, running, write_lock,
                    latest_snapshot, total_ticks, tick_index, history,
                    semaphore, tasks, gatherExc, returnValue, persisted,
                    tickBegun, taskEnded, taskFailed, stopAt, sleeps >>
    /\ UNCHANGED outsideScheduler

\* "await asyncio.sleep(self.tick_interval_s)" returns
SleepReturn ==
    /\ runPc = "sleep"
    /\ LoopHead(tick_index + 1, total_ticks, history)
    /\ UNCHANGED << phase, ctorArgs, ctorError, agents, tick_interval_s,
                    max_concurrency, persist_callback, write_lock,
                    latest_snapshot, total_ticks, history, semaphore, gatherExc,
                    raisedExc, persisted, tickBegun, taskEnded, taskFailed,
                    stopAt, sleeps >>
    /\ UNCHANGED outsideScheduler

\* stop(): "self._running = False"
Stop ==
    /\ phase = "constructed"
    /\ running' = FALSE
    /\ stopAt' = IF stopAt = NoStop /\ runPc \in {"gather", "sleep"}
                   THEN [round |-> tick_index, during |-> runPc]
                   ELSE stopAt
    /\ UNCHANGED << phase, ctorArgs, ctorError, agents, tick_interval_s,
                    max_concurrency, persist_callback, write_lock,
                    latest_snapshot, runPc, total_ticks, tick_index, history,
                    semaphore, tasks, gatherExc, returnValue, raisedExc,
                    persisted, tickBegun, taskEnded, taskFailed, sleeps >>
    /\ UNCHANGED outsideScheduler

\* stop() called on a constructed scheduler before run(): the same
\* "self._running = False", and the call is recorded
StopWhileIdle ==
    /\ phase = "constructed"
    /\ runPc = "idle"
    /\ running' = FALSE
    /\ stopped_idle' = TRUE
    /\ UNCHANGED << phase, ctorArgs, ctorError, agents, tick_interval_s,
                    max_concurrency, persist_callback, write_lock,
                    latest_snapshot, runPc, total_ticks, tick_index, history,
                    semaphore, tasks, gatherExc, returnValue, raisedExc,
                    persisted, tickBegun, taskEnded, taskFailed, stopAt, sleeps >>
    /\ UNCHANGED << percVars, embVars, cogVars, agentVars, dlgVars, storeVars >>

----------------------------------------------------------------------------
(***************************************************************************)
(* SimulationScheduler._run_agent_tick: the task of one agent in one round *)
(*   created -> ticking -> (lockwait -> persisting ->) done | failed       *)
(***************************************************************************)
\* (variant: no "async with semaphore")
NoSemaphore == TRUE

\* "async with semaphore" can be entered
SemaphoreFree == semaphore > 0

\* the tasks reach "async with semaphore" in the order of "self.agents.items()",
\* which for the agent lists used here is the order of the ids
NextToStart(id) == \A other \in DOMAIN tasks : other < id => tasks[other].pc # "created"

\* a tick or a callback may raise (the model lets at most MaxFailures do so
\* per round)
MayRaise == Cardinality(taskFailed[tick_index]) < MaxFailures

\* (variant: no "async with self._write_lock")
NoWriteLock == TRUE

\* "async with self._write_lock" can be entered
WriteLockFree == ~ write_lock

\* "if self.persist_callback:"
HasCallback == persist_callback

\* asyncio.gather keeps the first exception a task ends with
FirstException(exc, new) == IF exc = NoExc THEN new ELSE exc

\* (variant: the callback is handed the result of the round before)
PersistPreviousResult(id) == TickResult(agents[id], tick_index - 1)

\* the result the callback is invoked with: "self.persist_callback(agent_id,
\* tick_index, result)"
PersistArgument(id) == tasks[id].result

\* "async with semaphore:" entered, "agent.tick(tick_index)" called
TickStart(id) ==
    /\ id \in DOMAIN tasks
    /\ tasks[id].pc = "created"
    /\ NextToStart(id)
    /\ runPc \in {"gather", "raised"}
    /\ SemaphoreFree
    /\ semaphore' = semaphore - 1
    /\ tasks' = [tasks EXCEPT ![id].pc = "ticking"]
    /\ tickBegun' = [tickBegun EXCEPT ![tick_index] = @ \cup {id}]
    /\ UNCHANGED << phase, ctorArgs, ctorError, agents, tick_interval_s,
                    max_concurrency, persist_callback, running, write_lock,
                    latest_snapshot, runPc, total_ticks, tick_index, history,
                    gatherExc, returnValue, raisedExc, persisted, taskEnded,
                    taskFailed, stopAt, sleeps >>
    /\ UNCHANGED outsideScheduler

\* "result = await agent.tick(tick_index)" returns; without a callback the
\* task leaves the semaphore and returns (agent_id, result)
TickReturn(id) ==
    /\ id \in DOMAIN tasks
    /\ tasks[id].pc = "ticking"
    /\ LET result == TickResult(agents[id], tick_index)
       IN  IF HasCallback
             THEN /\ tasks' = [tasks EXCEPT ![id] = [pc |-> "lockwait", result |-> result]]
                  /\ UNCHANGED << semaphore, taskEnded >>
             ELSE /\ tasks' = [tasks EXCEPT ![id] = [pc |-> "done", result |-> result]]
                  /\ semaphore' = semaphore + 1
                  /\ taskEnded' = [taskEnded EXCEPT ![tick_index] = @ \cup {id}]
    /\ UNCHANGED << phase, ctorArgs, ctorError, agents, tick_interval_s,
                    max_concurrency, persist_callback, running, write_lock,
                    latest_snapshot, runPc, total_ticks, tick_index, history,
                    gatherExc, returnValue, raisedExc, persisted, tickBegun,
                    taskFailed, stopAt, sleeps >>
    /\ UNCHANGED outsideScheduler

\* "await agent.tick(tick_index)" raises: the semaphore is left, the task ends
\* with the exception
TickRaise(id) ==
    /\ id \in DOMAIN tasks
    /\ tasks[id].pc = "ticking"
    /\ MayRaise
    /\ tasks' = [tasks EXCEPT ![id].pc = "failed"]
    /\ semaphore' = semaphore + 1
    /\ gatherExc' = FirstException(gatherExc,
                        [agent_id |-> id, round |-> tick_index, raised_by |-> "tick"])
    /\ taskEnded' = [taskEnded EXCEPT ![tick_index] = @ \cup {id}]
    /\ taskFailed' = [taskFailed EXCEPT ![tick_index] = @ \cup {id}]
    /\ UNCHANGED << phase, ctorArgs, ctorError, agents, tick_interval_s,
                    max_concurrency, persist_callback, running, write_lock,
                    latest_snapshot, runPc, total_ticks, tick_index, history,
                    returnValue, raisedExc, persisted, tickBegun, stopAt,
                    sleeps >>
    /\ UNCHANGED outsideScheduler

\* "async with self._write_lock:" entered, the callback invoked
PersistStart(id) ==
    /\ id \in DOMAIN tasks
    /\ tasks[id].pc = "lockwait"
    /\ WriteLockFree
    /\ write_lock' = TRUE
    /\ tasks' = [tasks EXCEPT ![id].pc = "persisting"]
    /\ LET key == << id, tick_index >>
           before == IF key \in DOMAIN persisted THEN persisted[key] ELSE << >>
       IN  persisted' = [k \in DOMAIN persisted \cup {key} |->
                            IF k = key THEN Append(before, PersistArgument(id))
                                       ELSE persisted[k]]
    /\ UNCHANGED << phase, ctorArgs, ctorError, agents, tick_interval_s,
                    max_concurrency, persist_callback, running, latest_snapshot,
                    runPc, total_ticks, tick_index, history, semaphore,
                    gatherExc, returnValue, raisedExc, tickBegun, taskEnded,
                    taskFailed, stopAt, sleeps >>
    /\ UNCHANGED outsideScheduler

\* "await self.persist_callback(...)" returns: the lock and the semaphore are
\* left, the task returns (agent_id, result)
PersistReturn(id) ==
    /\ id \in DOMAIN tasks
    /\ tasks[id].pc = "persisting"
    /\ write_lock' = FALSE
    /\ semaphore' = semaphore + 1
    /\ tasks' = [tasks EXCEPT ![id].pc = "done"]
    /\ taskEnded' = [taskEnded EXCEPT ![tick_index] = @ \cup {id}]
    /\ UNCHANGED << phase, ctorArgs, ctorError, agents, tick_interval_s,
                    max_concurrency, persist_callback, running, latest_snapshot,
                    runPc, total_ticks, tick_index, history, gatherExc,
                    returnValue, raisedExc, persisted, tickBegun, taskFailed,
                    stopAt, sleeps >>
    /\ UNCHANGED outsideScheduler

\* "await self.persist_callback(...)" raises: the lock and the semaphore are
\* left, the task ends with the exception
PersistRaise(id) ==
    /\ id \in DOMAIN tasks
    /\ tasks[id].pc = "persisting"
    /\ MayRaise
    /\ write_lock' = FALSE
    /\ semaphore' = semaphore + 1
    /\ tasks' = [tasks EXCEPT ![id].pc = "failed"]
    /\ gatherExc' = FirstException(gatherExc,
                        [agent_id |-> id, round |-> tick_index, raised_by |-> "persist"])
    /\ taskEnded' = [taskEnded EXCEPT ![tick_index] = @ \cup {id}]
    /\ taskFailed' = [taskFailed EXCEPT ![tick_index] = @ \cup {id}]
    /\ UNCHANGED << phase, ctorArgs, ctorError, agents, tick_interval_s,
                    max_concurrency, persist_callback, running, latest_snapshot,
                    runPc, total_ticks, tick_index, history, returnValue,
                    raisedExc, persisted, tickBegun, stopAt, sleeps >>
    /\ UNCHANGED outsideScheduler

----------------------------------------------------------------------------
(***************************************************************************)
(* VisualPerceptionService.capture_and_describe                            *)
(*                                                                         *)
(* A capture runs up to "await self.llm_client.generate_with_vision(...)"  *)
(* in one step and, when inference runs, completes in a second step once   *)
(* the backend has answered or raised.  Captures of different agents may   *)
(* overlap; an agent has one capture in progress at a time.                *)
(***************************************************************************)
PerceptionAgents == {"agent-1", "agent-2"}

\* a fingerprint: HashLen hex characters, of which the first d are "f" and
\* the others "0"
Fingerprint(d) == [i \in 1..HashLen |-> IF i <= d THEN "f" ELSE "0"]

\* the fingerprints of the captured images: an image, one whose fingerprint
\* differs from it in 6 of 64 characters, and one that differs in all
CapturedHashes == {Fingerprint(0), Fingerprint(6), Fingerprint(HashLen)}

\* "image_hash: str | None = None"
NoHash == << >>

\* "last_description: str | None = None"; a description is the number n of
\* the backend call that produced it ("scene call=n" in the tests' fake)
NoDescription == 0

\* VisionCacheState()
NewCacheState == [image_hash |-> NoHash, last_description |-> NoDescription,
                  ticks_since_inference |-> 0]

\* _hash_similarity(previous_hash, current_hash), as the fraction num/den
HashSimilarity(previous_hash, current_hash) ==
    IF previous_hash = NoHash
      THEN [num |-> 0, den |-> 1]
    ELSE IF Len(previous_hash) # Len(current_hash)
      THEN [num |-> 0, den |-> 1]
    ELSE [num |-> Cardinality({i \in 1..Len(current_hash) :
                                  previous_hash[i] = current_hash[i]}),
          den |-> Len(current_hash)]

\* (variant: the similarity compared with the threshold itself)
ChangedBelowThreshold(similarity, threshold) ==
    similarity.num * 100 < threshold * similarity.den

\* "similarity < (1.0 - self.change_threshold)", the threshold in hundredths
Changed(similarity, threshold) ==
    similarity.num * 100 < (100 - threshold) * similarity.den

\* (variant: the glance refresh one capture late)
GlanceDueLate(ticks) == ticks > glance_interval_ticks

\* "cache_state.ticks_since_inference >= self.glance_interval_ticks"
GlanceDue(ticks) == ticks >= glance_interval_ticks

\* (variant: no periodic refresh)
ShouldRunInferenceWithoutGlance(state, similarity) ==
    \/ state.last_description = NoDescription
    \/ Changed(similarity, change_threshold)

\* "should_run_inference = (cache_state.last_description is None or
\*  similarity < (1.0 - self.change_threshold) or
\*  cache_state.ticks_since_inference >= self.glance_interval_ticks)"
ShouldRunInference(state, similarity) ==
    \/ state.last_description = NoDescription
    \/ Changed(similarity, change_threshold)
    \/ GlanceDue(state.ticks_since_inference)

\* the number of captures made so far
CapturesMade ==
    LET RECURSIVE Sum(_)
        Sum(S) == IF S = {} THEN 0
                  ELSE LET a == CHOOSE x \in S : TRUE
                       IN  Len(captures[a]) + Sum(S \ {a})
    IN  Sum(PerceptionAgents)

\* the number of backend calls that have raised
BackendFailures ==
    Cardinality({<< a, i >> \in PerceptionAgents \X (1..MaxCaptures + 1) :
                    i <= Len(captures[a]) /\ captures[a][i].outcome = "raised"})

\* (variant: one VisionCacheState for all agents)
SharedCacheWith(agent_id, cache_state) ==
    [a \in DOMAIN cache \cup {agent_id} |-> cache_state]

\* self._cache once agent_id's entry, created by setdefault if it was
\* missing, has been assigned to: cache_state is the object stored under
\* agent_id
CacheWith(agent_id, cache_state) ==
    [a \in DOMAIN cache \cup {agent_id} |->
        IF a = agent_id THEN cache_state ELSE cache[a]]

\* capture_and_describe(world, agent_id, radius) up to the await, or to its
\* return when the cached description is used; current_hash is the sha256
\* of the image the renderer wrote
CaptureBegin(agent_id, current_hash) ==
    /\ CapturesMade < MaxCaptures
    /\ agent_id \notin DOMAIN inference
    /\ LET \* "cache_state = self._cache.setdefault(agent_id, VisionCacheState())"
           cache_state == IF agent_id \in DOMAIN cache THEN cache[agent_id]
                                                       ELSE NewCacheState
           similarity == HashSimilarity(cache_state.image_hash, current_hash)
           \* "cache_state.ticks_since_inference += 1"
           ticked == [cache_state EXCEPT !.ticks_since_inference = @ + 1]
           should_run_inference == ShouldRunInference(ticked, similarity)
       IN  /\ cache' = CacheWith(agent_id, ticked)
           /\ IF should_run_inference
                THEN /\ llmCalls' = llmCalls + 1
                     /\ inference' = [a \in DOMAIN inference \cup {agent_id} |->
                                         IF a = agent_id
                                           THEN [current_hash |-> current_hash,
                                                 description |-> llmCalls + 1]
                                           ELSE inference[a]]
                     /\ captures' = [captures EXCEPT ![agent_id] = Append(@,
                                        [hash |-> current_hash, inferred |-> TRUE,
                                         outcome |-> "pending",
                                         description |-> NoDescription])]
                ELSE \* 'description = cache_state.last_description or ""'
                     /\ captures' = [captures EXCEPT ![agent_id] = Append(@,
                                        [hash |-> current_hash, inferred |-> FALSE,
                                         outcome |-> "returned",
                                         description |-> ticked.last_description])]
                     /\ UNCHANGED << llmCalls, inference >>
    /\ UNCHANGED << glance_interval_ticks, change_threshold >>
    /\ UNCHANGED outsidePerception

\* (variant: the fingerprint is not stored by an inference)
RefreshedWithoutHash(cache_state, call) ==
    [cache_state EXCEPT !.last_description = call.description,
                        !.ticks_since_inference = 0]

\* (variant: the counter is not reset by an inference)
RefreshedWithoutReset(cache_state, call) ==
    [cache_state EXCEPT !.last_description = call.description,
                        !.image_hash = call.current_hash]

\* "cache_state.last_description = description",
\* "cache_state.image_hash = current_hash",
\* "cache_state.ticks_since_inference = 0"
Refreshed(cache_state, call) ==
    [cache_state EXCEPT !.last_description = call.description,
                        !.image_hash = call.current_hash,
                        !.ticks_since_inference = 0]

\* "description = await self.llm_client.generate_with_vision(...)" returns:
\* the cache entry is refreshed and the new description returned
InferenceReturn(agent_id) ==
    /\ agent_id \in DOMAIN inference
    /\ LET call == inference[agent_id]
       IN  /\ cache' = [cache EXCEPT ![agent_id] = Refreshed(@, call)]
           /\ captures' = [captures EXCEPT ![agent_id][Len(captures[agent_id])] =
                              [@ EXCEPT !.outcome = "returned",
                                        !.description = call.description]]
    /\ inference' = [a \in DOMAIN inference \ {agent_id} |-> inference[a]]
    /\ UNCHANGED << glance_interval_ticks, change_threshold, llmCalls >>
    /\ UNCHANGED outsidePerception

\* (variant: the counter reset before the backend is awaited)
ResetBeforeAwait(cache_state) == [cache_state EXCEPT !.ticks_since_inference = 0]

\* the entry when the await raises: the three assignments after it are not
\* reached, the entry stays as the increment left it
NotRefreshed(cache_state) == cache_state

\* "await self.llm_client.generate_with_vision(...)" raises: the exception
\* leaves capture_and_describe
InferenceRaise(agent_id) ==
    /\ agent_id \in DOMAIN inference
    /\ BackendFailures < MaxBackendFailures
    /\ captures' = [captures EXCEPT ![agent_id][Len(captures[agent_id])] =
                       [@ EXCEPT !.outcome = "raised"]]
    /\ cache' = [cache EXCEPT ![agent_id] = NotRefreshed(@)]
    /\ inference' = [a \in DOMAIN inference \ {agent_id} |-> inference[a]]
    /\ UNCHANGED << glance_interval_ticks, change_threshold, llmCalls >>
    /\ UNCHANGED outsidePerception

----------------------------------------------------------------------------
(***************************************************************************)
(* EmbeddingClient.embed_texts and _embed_with_retry                       *)
(*                                                                         *)
(* A call of embed_texts runs from one await to the next in one step: up   *)
(* to the backend request of a batch, from the backend's answer to the     *)
(* next request, to the backoff sleep or to the end of the call, and from  *)
(* the end of a sleep to the next request.                                 *)
(***************************************************************************)
Max(a, b) == IF a >= b THEN a ELSE b

\* the texts embedded
TextAlphabet == {"a", "b"}

\* the model names the client is built with: config.EMBED_MODEL and another
EmbedModels == {"nomic-embed-text", "custom-embed"}

\* the vector the backend computes for a text
Vector(text) == [embedding_of |-> text]

\* the exceptions "except (ResponseError, TimeoutError, RuntimeError)"
\* catches: the backend's error, the timeout of asyncio.wait_for, and the
\* RuntimeError raised for an empty "embeddings" list
TransientFailures == {"ResponseError", "TimeoutError", "no embeddings"}

\* no exception has left embed_texts
NoEmbedError == [type |-> "none", attempts |-> 0, model |-> "", cause |-> "none"]

\* 'RuntimeError(f"Embedding request failed after {attempt + 1} attempts
\*  for model '{self.model_name}'") from exc'
WrappedFailure(attempts, model, exc) ==
    [type |-> "RuntimeError", attempts |-> attempts, model |-> model, cause |-> exc]

\* an exception of the backend call that the except clause does not catch
Uncaught == [type |-> "ConnectionError", attempts |-> 0, model |-> "",
             cause |-> "none"]

\* entries of the log of backend requests and sleeps
AttemptEvent(from, batch) ==
    [kind |-> "attempt", start |-> from, batch |-> batch,
     outcome |-> "pending", sleep_s |-> 0]

SleepEvent(from, sleep_s) ==
    [kind |-> "sleep", start |-> from, batch |-> << >>,
     outcome |-> "slept", sleep_s |-> sleep_s]

\* the log with the outcome of the request in flight filled in
Answered(log, outcome) ==
    [log EXCEPT ![Len(log)] = [@ EXCEPT !.outcome = outcome]]

\* "batch = list(texts[start : start + self.batch_size])"
Batch(input, from) ==
    SubSeq(input, from + 1, Min(from + batch_size, Len(input)))

\* (variant: each batch's vectors put in front of the earlier ones)
PrependVectors(earlier, batch_vectors) == batch_vectors \o earlier

\* "vectors.extend(batch_vectors)"
ExtendVectors(earlier, batch_vectors) == earlier \o batch_vectors

\* (variant: one retry more than max_retries)
GiveUpLate(attempts_made) == attempts_made > max_retries

\* "if attempt >= self.max_retries"
GiveUp(attempts_made) == attempts_made >= max_retries

\* (variant: the same delay before every retry)
ConstantBackoff(attempts_made) == retry_backoff_s

\* "sleep_s = self.retry_backoff_s * (2**attempt)"
Backoff(attempts_made) == retry_backoff_s * (2 ^ attempts_made)

\* embed_texts(texts) is called: an empty input returns at once, any other
\* sends its first batch
EmbedTexts(input) ==
    /\ embPc = "idle"
    /\ texts' = input
    /\ IF input = << >>
         THEN /\ embPc' = "returned"
              /\ embResult' = << >>
              /\ UNCHANGED << start, vectors, attempt, embLog >>
         ELSE /\ embPc' = "request"
              /\ start' = 0
              /\ vectors' = << >>
              /\ attempt' = 0
              /\ embLog' = Append(embLog, AttemptEvent(0, Batch(input, 0)))
              /\ UNCHANGED embResult
    /\ UNCHANGED << model_name, batch_size, max_retries, retry_backoff_s, embError >>
    /\ UNCHANGED outsideEmbedding

\* the backend answers with one vector per text of the batch:
\* _embed_with_retry returns them, embed_texts extends its result and goes
\* on to the next batch or returns
BackendReturn ==
    /\ embPc = "request"
    /\ LET batch == Batch(texts, start)
           embeddings == [i \in 1..Len(batch) |-> Vector(batch[i])]
           extended == ExtendVectors(vectors, embeddings)
           next == start + batch_size
       IN  /\ vectors' = extended
           /\ IF next < Len(texts)
                THEN /\ start' = next
                     /\ attempt' = 0
                     /\ embLog' = Append(Answered(embLog, "ok"),
                                         AttemptEvent(next, Batch(texts, next)))
                     /\ UNCHANGED << embPc, embResult >>
                ELSE /\ embPc' = "returned"
                     /\ embResult' = extended
                     /\ embLog' = Answered(embLog, "ok")
                     /\ UNCHANGED << start, attempt >>
    /\ UNCHANGED << model_name, batch_size, max_retries, retry_backoff_s, texts,
                    embError >>
    /\ UNCHANGED outsideEmbedding

\* the request fails with an exception the except clause catches: the
\* client gives up with the wrapped failure or goes to sleep
BackendFail(exc) ==
    /\ embPc = "request"
    /\ IF GiveUp(attempt)
         THEN /\ embPc' = "raised"
              /\ embError' = WrappedFailure(attempt + 1, model_name, exc)
              /\ embLog' = Answered(embLog, "failed")
         ELSE /\ embPc' = "sleep"
              /\ embLog' = Append(Answered(embLog, "failed"),
                                  SleepEvent(start, Backoff(attempt)))
              /\ UNCHANGED embError
    /\ UNCHANGED << model_name, batch_size, max_retries, retry_backoff_s, texts,
                    start, vectors, attempt, embResult >>
    /\ UNCHANGED outsideEmbedding

\* the request fails with an exception the except clause does not catch,
\* which leaves embed_texts as it is
BackendError ==
    /\ embPc = "request"
    /\ embPc' = "raised"
    /\ embError' = Uncaught
    /\ embLog' = Answered(embLog, "error")
    /\ UNCHANGED << model_name, batch_size, max_retries, retry_backoff_s, texts,
                    start, vectors, attempt, embResult >>
    /\ UNCHANGED outsideEmbedding

\* "await asyncio.sleep(sleep_s)" returns: "attempt += 1" and the request
\* is sent again
BackoffReturn ==
    /\ embPc = "sleep"
    /\ embPc' = "request"
    /\ attempt' = attempt + 1
    /\ embLog' = Append(embLog, AttemptEvent(start, Batch(texts, start)))
    /\ UNCHANGED << model_name, batch_size, max_retries, retry_backoff_s, texts,
                    start, vectors, embResult, embError >>
    /\ UNCHANGED outsideEmbedding

----------------------------------------------------------------------------
(***************************************************************************)
(* Retrieval, reflection and planning (retrieval.py, reflection.py,        *)
(* planning.py): functions of their arguments.  Scores are fixed-point     *)
(* numbers in thousandths; importance_score values are whole numbers.      *)
(***************************************************************************)
\* the memories the functions are applied to; last_accessed is in hours
\* relative to the "now" of the retrieval
MemoryProfiles ==
    { [description |-> "m1", importance_score |-> 100, last_accessed |-> 1,
       memory_type |-> "episodic", embedding_vector_ref |-> "vec:1"],
      [description |-> "m2", importance_score |-> 50, last_accessed |-> -1,
       memory_type |-> "semantic", embedding_vector_ref |-> "vec:2"],
      [description |-> "m3", importance_score |-> 50, last_accessed |-> 0,
       memory_type |-> "episodic", embedding_vector_ref |-> "vec:3"],
      [description |-> "m4", importance_score |-> 0, last_accessed |-> 0,
       memory_type |-> "reflective", embedding_vector_ref |-> "vec:4"] }

\* seq[:k] of Python, also for a negative k
Prefix(seq, k) ==
    IF k >= 0 THEN SubSeq(seq, 1, Min(k, Len(seq)))
              ELSE SubSeq(seq, 1, Max(Len(seq) + k, 0))

\* "0.995 ** elapsed_hours" in thousandths, for whole hours, truncated
RECURSIVE Decay(_)
Decay(elapsed_hours) ==
    IF elapsed_hours = 0 THEN 1000
    ELSE (995 * Decay(elapsed_hours - 1)) \div 1000

\* recency_score(last_accessed, now)
RecencyScore(last_accessed, now) == Decay(Max(now - last_accessed, 0))

\* The magnitude of "0.995 ** elapsed_hours" over the range of a Python
\* float (an IEEE 754 double): a value is written as the number of
\* millionths of a bit it lies below 1, and 0.0 is a value of its own.
\* -log2(0.995) is 0.0072316 bit
MicroBitsPerHour == 7232
\* the smallest positive double is 2^-1074; a result of at most half of it
\* is rounded to 0.0, a result between the two to 2^-1074
SmallestDoubleBits == 1074000000
UnderflowBits == 1075000000

\* the doubles 1.0 and 0.0
DoubleOne == [zero |-> FALSE, bits |-> 0]
DoubleZero == [zero |-> TRUE, bits |-> UnderflowBits]

\* "0.995 ** elapsed_hours" as a double, for whole hours
Power(elapsed_hours) ==
    LET bits == elapsed_hours * MicroBitsPerHour
    IN  IF bits >= UnderflowBits THEN DoubleZero
        ELSE IF bits >= SmallestDoubleBits
               THEN [zero |-> FALSE, bits |-> SmallestDoubleBits]
               ELSE [zero |-> FALSE, bits |-> bits]

\* x < y for two such doubles
DoubleLess(x, y) == x.bits > y.bits

\* recency_score(last_accessed, now) as a double
RecencyDouble(last_accessed, now) == Power(Max(now - last_accessed, 0))

\* no call of recency_score made
NoRecency == [last_accessed |-> 0, now |-> 0, score |-> DoubleOne]

\* final_score(recency, importance, relevance)
FinalScore(recency, importance, relevance) == recency + importance + relevance

\* score_memory(memory, relevance, now)
ScoreMemory(memory, relevance, now) ==
    LET recency == RecencyScore(memory.last_accessed, now)
        importance == memory.importance_score * 1000
    IN  [memory |-> memory, recency |-> recency, importance |-> importance,
         relevance |-> relevance,
         final_score |-> FinalScore(recency, importance, relevance)]

\* "relevance_by_embedding_ref.get(memory.embedding_vector_ref, 0.0)"
RelevanceOf(relevance_map, ref) ==
    IF ref \in DOMAIN relevance_map THEN relevance_map[ref] ELSE 0

\* (variant: an item overtakes the earlier items of equal score)
StaysAheadOnlyIfGreater(earlier, later) == earlier.final_score > later.final_score

\* sorted(..., key=..., reverse=True) keeps an item of the input in front of
\* every later item whose key is not greater; the key of an item is its
\* field final_score
StaysAhead(earlier, later) == earlier.final_score >= later.final_score

\* "sorted(scored, key=lambda item: item.final_score, reverse=True)": the
\* items are placed one by one, in input order
RECURSIVE SortedDescending(_)
SortedDescending(scored) ==
    IF scored = << >> THEN << >>
    ELSE LET placed == SortedDescending(SubSeq(scored, 1, Len(scored) - 1))
             item == scored[Len(scored)]
             k == Cardinality({i \in 1..Len(placed) : StaysAhead(placed[i], item)})
         IN  SubSeq(placed, 1, k) \o << item >> \o SubSeq(placed, k + 1, Len(placed))

\* retrieve_top_memories(memories, relevance_by_embedding_ref, top_k, now)
RetrieveTopMemories(mems, relevance_map, k, now) ==
    LET scored == [i \in 1..Len(mems) |->
                      ScoreMemory(mems[i],
                                  RelevanceOf(relevance_map, mems[i].embedding_vector_ref),
                                  now)]
    IN  Prefix(SortedDescending(scored), k)

\* "sum(memory.importance_score for memory in memories)"
RECURSIVE SumImportance(_)
SumImportance(mems) ==
    IF mems = << >> THEN 0
    ELSE mems[1].importance_score + SumImportance(Tail(mems))

\* (variant: the threshold itself triggers)
ReachesThreshold(total) == total >= ReflectionTriggerThreshold

\* "... > REFLECTION_TRIGGER_THRESHOLD"
ExceedsThreshold(total) == total > ReflectionTriggerThreshold

\* should_trigger_reflection(memories)
ShouldTriggerReflection(mems) == ExceedsThreshold(SumImportance(mems))

\* (variant: the mean must exceed 50)
MeanAboveFifty(mems) == SumImportance(mems) > 50 * Len(mems)

\* "avg_importance >= 50", avg_importance = sum / len
HighImportance(mems) == SumImportance(mems) >= 50 * Len(mems)

\* "round(avg_importance, 3)", in thousandths
RoundedMean(mems) == (2 * 1000 * SumImportance(mems) + Len(mems)) \div (2 * Len(mems))

\* the descriptions of a list of memories
Descriptions(mems) == [i \in 1..Len(mems) |-> mems[i].description]

\* the memory types of a list in order of first occurrence
RECURSIVE TypesSeen(_)
TypesSeen(mems) ==
    IF mems = << >> THEN << >>
    ELSE LET before == TypesSeen(SubSeq(mems, 1, Len(mems) - 1))
             kind == mems[Len(mems)].memory_type
         IN  IF \E i \in 1..Len(before) : before[i] = kind
               THEN before ELSE Append(before, kind)

\* "Counter(...).most_common()": the types with their counts, most frequent
\* first, equally frequent ones in order of first occurrence
MostCommon(mems) ==
    LET seen == TypesSeen(mems)
        counted == [i \in 1..Len(seen) |->
                      [kind |-> seen[i],
                       final_score |-> Cardinality({j \in 1..Len(mems) :
                                                      mems[j].memory_type = seen[i]})]]
        ordered == SortedDescending(counted)
    IN  [i \in 1..Len(ordered) |-> [kind |-> ordered[i].kind,
                                    count |-> ordered[i].final_score]]

\* the memories by importance, "sorted(recent_memories, key=lambda m:
\* m.importance_score, reverse=True)"
ByImportance(mems) ==
    LET keyed == [i \in 1..Len(mems) |->
                     [memory |-> mems[i], final_score |-> mems[i].importance_score]]
        ordered == SortedDescending(keyed)
    IN  [i \in 1..Len(ordered) |-> ordered[i].memory]

\* the three insights generate_high_level_insights can build
ConcentrationInsight(mems) ==
    [summary |-> [text |-> "Recent activity concentrates in",
                  kinds |-> MostCommon(mems), from |-> "", toward |-> ""],
     supporting_memories |-> Descriptions(Prefix(mems, 5)),
     metadata |-> [signal |-> "average_importance", value |-> RoundedMean(mems)]]

HighImportanceInsight(mems) ==
    [summary |-> [text |-> "Current memory stream indicates high-priority context that may require proactive planning.",
                  kinds |-> << >>, from |-> "", toward |-> ""],
     supporting_memories |-> Descriptions(Prefix(ByImportance(mems), 3)),
     metadata |-> [signal |-> "high_importance", value |-> 0]]

TemporalShiftInsight(mems) ==
    LET latest == mems[1]
        oldest == mems[Len(mems)]
    IN  [summary |-> [text |-> "Context appears to evolve",
                      kinds |-> << >>, from |-> oldest.description,
                      toward |-> latest.description],
         supporting_memories |-> << oldest.description, latest.description >>,
         metadata |-> [signal |-> "temporal_shift", value |-> 0]]

\* generate_high_level_insights(recent_memories, max_insights)
GenerateHighLevelInsights(recent_memories, limit) ==
    IF recent_memories = << >> THEN << >>
    ELSE Prefix(<< ConcentrationInsight(recent_memories) >>
                \o (IF HighImportance(recent_memories)
                      THEN << HighImportanceInsight(recent_memories) >> ELSE << >>)
                \o (IF Len(recent_memories) >= 4
                      THEN << TemporalShiftInsight(recent_memories) >> ELSE << >>),
                limit)

\* (variant: steps of up to 20 minutes are accepted)
DurationUpToTwenty(duration_minutes) ==
    5 <= duration_minutes /\ duration_minutes <= 20

\* "duration_minutes: int = Field(..., ge=5, le=15)"
DurationValid(duration_minutes) ==
    5 <= duration_minutes /\ duration_minutes <= 15

\* the pydantic ValidationError raised in place of an ActionStep
ValidationError == [title |-> << "ValidationError" >>, duration_minutes |-> -1]

\* no ActionStep call made
NoStep == [title |-> << >>, duration_minutes |-> 0]

\* ActionStep(title=..., duration_minutes=...)
ActionStep(title, duration_minutes) ==
    IF DurationValid(duration_minutes)
      THEN [title |-> title, duration_minutes |-> duration_minutes]
      ELSE ValidationError

\* the three steps of the block built for a retrieved memory
MemoryActions(item) ==
    << ActionStep(<< "Review context for memory of type", item.memory.memory_type >>, 10),
       ActionStep(<< "Execute next step tied to", item.memory.description >>, 15),
       ActionStep(<< "Capture concise outcome note" >>, 5) >>

\* (variant: the objective names the type of the memory)
MemoryBlockByType(index, item) ==
    [hour_label |-> index,
     objective |-> << "Advance:", item.memory.memory_type >>,
     actions |-> MemoryActions(item)]

\* HourlyPlan(hour_label=f"Hour {index}", objective=f"Advance: ...", actions=actions)
MemoryBlock(index, item) ==
    [hour_label |-> index,
     objective |-> << "Advance:", item.memory.description >>,
     actions |-> MemoryActions(item)]

\* the block emitted when nothing was retrieved
FallbackBlock ==
    [hour_label |-> 1,
     objective |-> << "Stabilize baseline operations" >>,
     actions |-> << ActionStep(<< "Review pending tasks" >>, 10),
                    ActionStep(<< "Complete a highest-impact task" >>, 15),
                    ActionStep(<< "Log lessons learned" >>, 5) >>]

\* (variant: no block when nothing was retrieved)
NoFallback(hourly_blocks) == hourly_blocks

\* "if not hourly_blocks: hourly_blocks.append(HourlyPlan(...))"
WithFallback(hourly_blocks) ==
    IF hourly_blocks = << >> THEN << FallbackBlock >> ELSE hourly_blocks

\* the goal used when there are no insights
FallbackGoal ==
    [text |-> "Maintain progress on current priorities.",
     kinds |-> << >>, from |-> "", toward |-> ""]

\* no agenda: the value of current_plan before any plan was made, and the
\* outcome of a plan whose construction raised
NoAgenda == [date_label |-> "none", goals |-> << >>, hourly_plan |-> << >>]

\* generate_hierarchical_plan(retrieved_memories, insights, date_label="today")
GenerateHierarchicalPlan(retrieved_memories, insight_list) ==
    LET first_insights == Prefix(insight_list, 3)
        summaries == [i \in 1..Len(first_insights) |-> first_insights[i].summary]
        goals == IF summaries = << >> THEN << FallbackGoal >> ELSE summaries
        first_memories == Prefix(retrieved_memories, 3)
        hourly_blocks == WithFallback([i \in 1..Len(first_memories) |->
                                          MemoryBlock(i, first_memories[i])])
    IN  IF \E b \in 1..Len(hourly_blocks) :
              \E s \in 1..Len(hourly_blocks[b].actions) :
                  hourly_blocks[b].actions[s] = ValidationError
          THEN NoAgenda
          ELSE [date_label |-> "today", goals |-> goals,
                hourly_plan |-> hourly_blocks]

\* the arguments of a call, those a function does not take being 0
Args(k, limit, duration) ==
    [top_k |-> k, max_insights |-> limit, duration_minutes |-> duration]

\* retrieve_top_memories(memories, relevance_by_embedding_ref, top_k, now)
\* is called, at hour 0
CallRetrieveTopMemories(k) ==
    /\ called = "none"
    /\ called' = "retrieve_top_memories"
    /\ args' = Args(k, 0, 0)
    /\ retrieved' = RetrieveTopMemories(memories, relevance_by_embedding_ref, k, 0)
    /\ triggered' = FALSE
    /\ insights' = << >>
    /\ agenda' = NoAgenda
    /\ step' = NoStep
    /\ UNCHANGED << memories, relevance_by_embedding_ref, recency_call >>
    /\ UNCHANGED outsideCognition

\* should_trigger_reflection(memories) is called
CallShouldTriggerReflection ==
    /\ called = "none"
    /\ called' = "should_trigger_reflection"
    /\ args' = Args(0, 0, 0)
    /\ triggered' = ShouldTriggerReflection(memories)
    /\ retrieved' = << >>
    /\ insights' = << >>
    /\ agenda' = NoAgenda
    /\ step' = NoStep
    /\ UNCHANGED << memories, relevance_by_embedding_ref, recency_call >>
    /\ UNCHANGED outsideCognition

\* generate_high_level_insights(memories, max_insights) is called
CallGenerateHighLevelInsights(limit) ==
    /\ called = "none"
    /\ called' = "generate_high_level_insights"
    /\ args' = Args(0, limit, 0)
    /\ insights' = GenerateHighLevelInsights(memories, limit)
    /\ retrieved' = << >>
    /\ triggered' = FALSE
    /\ agenda' = NoAgenda
    /\ step' = NoStep
    /\ UNCHANGED << memories, relevance_by_embedding_ref, recency_call >>
    /\ UNCHANGED outsideCognition

\* generate_hierarchical_plan is called with the top k of the memories and
\* the first limit insights about them, or with these insights twice over
CallGenerateHierarchicalPlan(k, limit, twice) ==
    /\ called = "none"
    /\ called' = "generate_hierarchical_plan"
    /\ args' = Args(k, limit, 0)
    /\ retrieved' = RetrieveTopMemories(memories, relevance_by_embedding_ref, k, 0)
    /\ LET generated == GenerateHighLevelInsights(memories, limit)
       IN  insights' = IF twice THEN generated \o generated ELSE generated
    /\ agenda' = GenerateHierarchicalPlan(retrieved', insights')
    /\ triggered' = FALSE
    /\ step' = NoStep
    /\ UNCHANGED << memories, relevance_by_embedding_ref, recency_call >>
    /\ UNCHANGED outsideCognition

\* ActionStep(title="t", duration_minutes=duration) is called: the step is
\* built or the ValidationError raised
CallActionStep(duration) ==
    /\ called = "none"
    /\ called' = "ActionStep"
    /\ args' = Args(0, 0, duration)
    /\ step' = ActionStep(<< "t" >>, duration)
    /\ retrieved' = << >>
    /\ triggered' = FALSE
    /\ insights' = << >>
    /\ agenda' = NoAgenda
    /\ UNCHANGED << memories, relevance_by_embedding_ref, recency_call >>
    /\ UNCHANGED outsideCognition

\* recency_score(last_accessed, now) is called
CallRecencyScore(last_accessed, now) ==
    /\ called = "none"
    /\ called' = "recency_score"
    /\ recency_call' = [last_accessed |-> last_accessed, now |-> now,
                   score |-> RecencyDouble(last_accessed, now)]
    /\ UNCHANGED << memories, relevance_by_embedding_ref, args, retrieved,
                    triggered, insights, agenda, step >>
    /\ UNCHANGED outsideCognition

----------------------------------------------------------------------------
(***************************************************************************)
(* The agent of agent.py: its memories, its insights and its current plan, *)
(* and the tick that retrieves, marks, reflects, plans and selects.        *)
(***************************************************************************)
\* Memory(description=..., importance_score=..., memory_type=...,
\* embedding_vector_ref=..., last_accessed=...)
AgentMemory(description, importance, kind, ref, accessed) ==
    [description |-> description, importance_score |-> importance,
     last_accessed |-> accessed, memory_type |-> kind,
     embedding_vector_ref |-> ref]

\* the memory lists an agent is built with: none; two memories whose
\* importance adds up to the reflection threshold; five memories of importance
\* 20, 200, 10, 5, 5 accessed at the hour the clock starts at; six memories,
\* one of importance 200 and five of importance 10 that share an embedding
\* reference, the last two of them equal in every field; seven memories of
\* importance 30, any five of which add up to the reflection threshold
AgentMemoryLists ==
    { << >>,
      << AgentMemory("t1", 100, "episodic", "vec:t1", -1),
         AgentMemory("t2", 50, "semantic", "vec:t2", 1) >>,
      << AgentMemory("c1", 20, "episodic", "vec:c1", 0),
         AgentMemory("c2", 200, "semantic", "vec:c2", 0),
         AgentMemory("c3", 10, "episodic", "vec:c3", 0),
         AgentMemory("c4", 5, "procedural", "vec:c4", 0),
         AgentMemory("c5", 5, "episodic", "vec:c5", 0) >>,
      << AgentMemory("s1", 200, "semantic", "vec:s1", 0),
         AgentMemory("s2", 10, "episodic", "vec:low", -1),
         AgentMemory("s3", 10, "episodic", "vec:low", 0),
         AgentMemory("s4", 10, "procedural", "vec:low", 0),
         AgentMemory("s5", 10, "episodic", "vec:low", 0),
         AgentMemory("s5", 10, "episodic", "vec:low", 0) >>,
      << AgentMemory("m1", 30, "episodic", "vec:m1", 0),
         AgentMemory("m2", 30, "semantic", "vec:m2", -1),
         AgentMemory("m3", 30, "episodic", "vec:low", 0),
         AgentMemory("m4", 30, "procedural", "vec:m4", 0),
         AgentMemory("m5", 30, "episodic", "vec:m5", 1),
         AgentMemory("m6", 30, "semantic", "vec:low", 0),
         AgentMemory("m7", 30, "episodic", "vec:m7", 0) >> }

\* the relevance maps a tick is called with, in thousandths: none, and one
\* that lifts the memories of reference "vec:low" above every other memory
AgentRelevanceMaps == { << >>, ("vec:low" :> 1000000) }

\* the sleep_s arguments of a tick, in milliseconds
SleepArgs == {0, 50}

\* (variant: the access is recorded as the hour after)
MarkAccessedLate(memory, when) == [memory EXCEPT !.last_accessed = when + 1]

\* Memory.mark_accessed(when): "self.last_accessed = when..."
MarkAccessed(memory, when) == [memory EXCEPT !.last_accessed = when]

\* the positions in mems of the memories retrieve_top_memories returns, in
\* the order it returns them: item.memory of a RetrievedMemory is the object
\* of the list it was scored from
RetrievedPositions(mems, relevance_map, k, now) ==
    LET scored == [i \in 1..Len(mems) |->
                      [position |-> i,
                       final_score |-> ScoreMemory(mems[i],
                                          RelevanceOf(relevance_map, mems[i].embedding_vector_ref),
                                          now).final_score]]
        ordered == Prefix(SortedDescending(scored), k)
    IN  [j \in 1..Len(ordered) |-> ordered[j].position]

\* the elements of a sequence
Elements(seq) == {seq[i] : i \in 1..Len(seq)}

\* "for memory in recent_memories: memory.mark_accessed(now)": the list
\* self.memories after the objects at the given positions were marked
MarkRetrieved(mems, positions, now) ==
    [i \in 1..Len(mems) |->
        IF i \in Elements(positions) THEN MarkAccessed(mems[i], now) ELSE mems[i]]

\* (variant: reflect without the should_trigger_reflection test)
ReflectAlways(stored, recent_memories) ==
    LET generated == GenerateHighLevelInsights(recent_memories, DefaultMaxInsights)
    IN  [stored |-> generated, returned |-> generated]

\* Agent.reflect(recent_memories): self.insights afterwards and the list
\* returned
Reflect(stored, recent_memories) ==
    IF ~ ShouldTriggerReflection(recent_memories)
      THEN [stored |-> stored, returned |-> << >>]
      ELSE LET generated == GenerateHighLevelInsights(recent_memories, DefaultMaxInsights)
           IN  [stored |-> generated, returned |-> generated]

\* the sentinels of select_action
NoPlanAvailable == << "No plan available." >>
NoActionAvailable == << "No action available." >>

\* (variant: the first action of the first block, with or without actions)
SelectFromFirstBlock(plan) ==
    IF plan = NoAgenda THEN NoPlanAvailable
    ELSE IF plan.hourly_plan = << >> \/ plan.hourly_plan[1].actions = << >>
           THEN NoActionAvailable
           ELSE plan.hourly_plan[1].actions[1].title

\* Agent.select_action() with self.current_plan = plan
SelectAction(plan) ==
    IF plan = NoAgenda THEN NoPlanAvailable
    ELSE LET with_actions == {b \in 1..Len(plan.hourly_plan) :
                                 plan.hourly_plan[b].actions # << >>}
         IN  IF with_actions = {} THEN NoActionAvailable
             ELSE LET hour == CHOOSE b \in with_actions :
                                  \A other \in with_actions : b <= other
                  IN  plan.hourly_plan[hour].actions[1].title

\* agendas a client can assign to current_plan: one without blocks, one whose
\* blocks have no actions, one whose second block is the first with actions
AssignedAgendas ==
    { [date_label |-> "today", goals |-> << >>, hourly_plan |-> << >>],
      [date_label |-> "today", goals |-> << >>,
       hourly_plan |-> << [hour_label |-> 1, objective |-> << "rest" >>,
                           actions |-> << >>] >>],
      [date_label |-> "today", goals |-> << >>,
       hourly_plan |-> << [hour_label |-> 1, objective |-> << "rest" >>,
                           actions |-> << >>],
                          [hour_label |-> 2, objective |-> << "walk" >>,
                           actions |-> << ActionStep(<< "Walk" >>, 5),
                                          ActionStep(<< "Sit" >>, 5) >>] >>] }

\* the synchronous part of Agent.tick at hour now: the fields of the agent
\* afterwards and the dictionary the tick returns
TickOutcome(mems, stored, relevance_map, now) ==
    LET positions == RetrievedPositions(mems, relevance_map, DefaultTopK, now)
        scored == RetrieveTopMemories(mems, relevance_map, DefaultTopK, now)
        marked == MarkRetrieved(mems, positions, now)
        recent_memories == [j \in 1..Len(positions) |-> marked[positions[j]]]
        retrieved_items == [j \in 1..Len(scored) |->
                               [scored[j] EXCEPT !.memory = recent_memories[j]]]
        reflected == Reflect(stored, recent_memories)
        plan == GenerateHierarchicalPlan(retrieved_items, reflected.stored)
    IN  [memories |-> marked,
         insights |-> reflected.stored,
         current_plan |-> plan,
         result |-> [retrieved |-> retrieved_items,
                     insights |-> reflected.returned,
                     plan |-> plan,
                     action |-> SelectAction(plan),
                     timestamp |-> now]]

\* no call of select_action made
NoSelection == [plan |-> NoAgenda, action |-> << >>]

\* agent.tick(relevance_map, sleep_s) is called and runs up to its sleep, or
\* to its return when sleep_s is 0
AgentTick(relevance_map, sleep_s) ==
    /\ tickPc = "idle"
    /\ Len(tick_log) < MaxAgentTicks
    /\ LET outcome == TickOutcome(self_memories, self_insights, relevance_map, clock) IN
         /\ self_memories' = outcome.memories
         /\ self_insights' = outcome.insights
         /\ current_plan' = outcome.current_plan
         /\ tick_log' = Append(tick_log,
                               [relevance |-> relevance_map,
                                memories_before |-> self_memories,
                                memories_after |-> outcome.memories,
                                result |-> outcome.result])
         /\ IF sleep_s > 0
              THEN /\ tickPc' = "sleeping"
                   /\ UNCHANGED tick_results
              ELSE /\ tickPc' = "idle"
                   /\ tick_results' = Append(tick_results, outcome.result)
    /\ UNCHANGED << clock, selected >>
    /\ UNCHANGED outsideAgent

\* "await asyncio.sleep(sleep_s)" returns and the tick returns its result
AgentTickReturn ==
    /\ tickPc = "sleeping"
    /\ tickPc' = "idle"
    /\ tick_results' = Append(tick_results, tick_log[Len(tick_log)].result)
    /\ UNCHANGED << self_memories, self_insights, current_plan, clock, tick_log,
                    selected >>
    /\ UNCHANGED outsideAgent

\* an hour passes
ClockAdvance ==
    /\ clock < MaxClock
    /\ clock' = clock + 1
    /\ UNCHANGED << self_memories, self_insights, current_plan, tickPc, tick_log,
                    tick_results, selected >>
    /\ UNCHANGED outsideAgent

\* a client assigns current_plan
AssignCurrentPlan(plan) ==
    /\ tickPc = "idle"
    /\ current_plan' = plan
    /\ UNCHANGED << self_memories, self_insights, clock, tickPc, tick_log,
                    tick_results, selected >>
    /\ UNCHANGED outsideAgent

\* a client calls agent.select_action()
CallSelectAction ==
    /\ tickPc = "idle"
    /\ selected' = [plan |-> current_plan, action |-> SelectAction(current_plan)]
    /\ UNCHANGED << self_memories, self_insights, current_plan, clock, tickPc,
                    tick_log, tick_results >>
    /\ UNCHANGED outsideAgent

----------------------------------------------------------------------------
(***************************************************************************)
(* run_dialogue of dialogue.py: two agents take turns speaking, and each   *)
(* turn is handed to the store, when there is one.                         *)
(***************************************************************************)
\* the agents and the tiles of the dialogue
Talkers == {"a1", "a2"}
Tiles == { << 2, 2 >>, << 2, 3 >> }

\* what speak can return
Utterances == {"hello", "goodbye"}

\* the store argument: None, a store with add_dialogue_turn, an object
\* without that method
Stores == {"none", "store", "object"}

\* the conversation_id argument (None or a given id) and "str(uuid.uuid4())"
ConversationIds == {"", "c1"}
FreshConversationId == "uuid4"

\* "conversation_id or str(uuid.uuid4())"
ConvoId(conversation_id) ==
    IF conversation_id = "" THEN FreshConversationId ELSE conversation_id

\* "store is not None and hasattr(store, "add_dialogue_turn")"
Persists(store) == store = "store"

\* no call of run_dialogue made
NoDialogue ==
    [first_agent |-> "", second_agent |-> "", first_position |-> << >>,
     second_position |-> << >>, turns |-> 0, conversation_id |-> "",
     store |-> "none"]

\* DialogueTurn(conversation_id, speaker_id, listener_id, utterance, ...)
DialogueTurn(id, speaker_id, listener_id, utterance) ==
    [conversation_id |-> id, speaker_id |-> speaker_id,
     listener_id |-> listener_id, utterance |-> utterance]

\* (variant: the roles stay as they are)
RolesKept(pair) == pair

\* "speaker, listener = listener, speaker"
RolesSwapped(pair) == [speaker |-> pair.listener, listener |-> pair.speaker]

\* the head of "for turn_index in range(turns)" at index: either the speaker
\* is asked ("await speaker.speak(...)") or the transcript is returned
TurnLoopHead(index, next_roles, lines) ==
    IF index < dlgArgs'.turns
      THEN /\ dlgPc' = "speaking"
           /\ turn_index' = index
           /\ roles' = next_roles
           /\ asked' = Append(asked, [speaker |-> next_roles.speaker,
                                      turn_index |-> index,
                                      added |-> Len(added_turns')])
           /\ dlgResult' = << >>
      ELSE /\ dlgPc' = "returned"
           /\ turn_index' = index
           /\ roles' = next_roles
           /\ asked' = asked
           /\ dlgResult' = lines

\* run_dialogue(first_agent, second_agent, first_state, second_state,
\* world_state, turns=..., conversation_id=..., store=...) is called
RunDialogue(call) ==
    /\ dlgPc = "idle"
    /\ dlgArgs' = call
    /\ transcript' = << >>
    /\ UNCHANGED << added_turns, dlgFailures >>
    /\ IF call.first_position # call.second_position
         THEN /\ dlgPc' = "returned"
              /\ dlgResult' = << >>
              /\ UNCHANGED << convo_id, roles, turn_index, asked >>
         ELSE /\ convo_id' = ConvoId(call.conversation_id)
              /\ TurnLoopHead(0, [speaker |-> call.first_agent,
                              listener |-> call.second_agent], << >>)
    /\ UNCHANGED outsideDialogue

\* speak returns utterance: the turn joins the transcript and is handed to
\* the store, or the loop goes on
SpeakReturn(utterance) ==
    /\ dlgPc = "speaking"
    /\ transcript' = Append(transcript,
                            DialogueTurn(convo_id, roles.speaker, roles.listener,
                                         utterance))
    /\ UNCHANGED << dlgArgs, convo_id, added_turns, dlgFailures >>
    /\ IF Persists(dlgArgs.store)
         THEN /\ dlgPc' = "persisting"
              /\ UNCHANGED << roles, turn_index, asked, dlgResult >>
         ELSE TurnLoopHead(turn_index + 1, RolesSwapped(roles), transcript')
    /\ UNCHANGED outsideDialogue

\* store.add_dialogue_turn(...) returns: the store has the turn
AddDialogueTurnReturn ==
    /\ dlgPc = "persisting"
    /\ added_turns' = Append(added_turns, transcript[Len(transcript)])
    /\ UNCHANGED << dlgArgs, convo_id, transcript, dlgFailures >>
    /\ TurnLoopHead(turn_index + 1, RolesSwapped(roles), transcript)
    /\ UNCHANGED outsideDialogue

\* speak or add_dialogue_turn raises, and so does run_dialogue
DialogueRaise ==
    /\ dlgPc \in {"speaking", "persisting"}
    /\ dlgFailures < MaxDialogueFailures
    /\ dlgFailures' = dlgFailures + 1
    /\ dlgPc' = "raised"
    /\ UNCHANGED << dlgArgs, convo_id, roles, turn_index, transcript, asked,
                    added_turns, dlgResult >>
    /\ UNCHANGED outsideDialogue

----------------------------------------------------------------------------
(***************************************************************************)
(* The SQLite store of storage/sqlite_store.py: the tables memories and    *)
(* evidence_pointers, written by upsert_memory and read by                 *)
(* get_agent_memories.  Calls are made one after the other.                *)
(***************************************************************************)
\* a key a memory dictionary does not have, and the value None
Absent == -1
NoValue == << >>

\* the memory dictionaries upsert_memory is called with: the memory of the
\* round-trip test with an id, a later version of it without evidence, the
\* same memory without timestamps, a memory without an id, and two memories
\* of other ids, one of another agent
MemoryDict(id, agent_id, description, timestamp, pointers, visual) ==
    [memory_id |-> id, agent_id |-> agent_id, description |-> description,
     created_at |-> timestamp, last_accessed |-> timestamp,
     importance_score |-> 8, memory_type |-> "episodic",
     embedding_vector_ref |-> "vec:1", pointers_to_evidence |-> pointers,
     visual_context |-> visual]

MemoryDicts ==
    { MemoryDict("m1", "a1", "Met Bob near the fountain", 0,
                 << "image://fountain.png" >>, << "town square" >>),
      MemoryDict("m1", "a1", "Met Bob again", 0, << >>, NoValue),
      MemoryDict("m1", "a1", "Met Bob near the fountain", Absent, << >>, NoValue),
      MemoryDict("", "a1", "Met Bob near the fountain", Absent,
                 << "image://fountain.png" >>, NoValue),
      MemoryDict("m2", "a1", "Saw crowded plaza", 0, << >>, << "plaza" >>),
      MemoryDict("m3", "a2", "Saw crowded plaza", 0,
                 << "image://a.png", "image://b.png" >>, NoValue) }

\* "str(uuid.uuid4())": the n-th identifier drawn
UuidNames == << "u1", "u2", "u3", "u4", "u5" >>
Uuid(n) == UuidNames[n]

\* a NULL column, and the text of a JSON document
Null == << "NULL" >>

\* _json_dumps(value)
JsonDumps(value) == IF value = NoValue THEN Null ELSE << "json" >> \o value

\* _json_loads(value)
JsonLoads(value) == IF value = Null THEN NoValue ELSE Tail(value)

\* "memory.get(key, now)"
GetOr(value, now) == IF value = Absent THEN now ELSE value

\* the row of the INSERT
InsertedRow(memory, now) ==
    [agent_id |-> memory.agent_id,
     description |-> memory.description,
     created_at |-> GetOr(memory.created_at, now),
     last_accessed |-> GetOr(memory.last_accessed, now),
     importance_score |-> memory.importance_score,
     memory_type |-> memory.memory_type,
     embedding_vector_ref |-> memory.embedding_vector_ref,
     visual_context_json |-> JsonDumps(memory.visual_context)]

\* "ON CONFLICT(memory_id) DO UPDATE SET description = excluded.description,
\* last_accessed = ..., importance_score = ..., memory_type = ...,
\* embedding_vector_ref = ..., visual_context_json = ..."
UpdatedRow(row, excluded) ==
    [row EXCEPT !.description = excluded.description,
                !.last_accessed = excluded.last_accessed,
                !.importance_score = excluded.importance_score,
                !.memory_type = excluded.memory_type,
                !.embedding_vector_ref = excluded.embedding_vector_ref,
                !.visual_context_json = excluded.visual_context_json]

\* the table memories after the INSERT ... ON CONFLICT of upsert_memory
UpsertedRows(rows, key, memory, now) ==
    IF key \in DOMAIN rows
      THEN [rows EXCEPT ![key] = UpdatedRow(rows[key], InsertedRow(memory, now))]
      ELSE (key :> InsertedRow(memory, now)) @@ rows

\* "for pointer in memory.get("pointers_to_evidence", []): await
\* self.add_evidence_pointer(...)": one INSERT into evidence_pointers each
PointersAdded(pointer_rows, key, pointers) ==
    pointer_rows \o [i \in 1..Len(pointers) |->
                        [memory_id |-> key, pointer |-> pointers[i]]]

\* get_evidence_pointers(memory_id): "SELECT pointer ... WHERE memory_id = ?
\* ORDER BY id ASC"
RECURSIVE GetEvidencePointers(_, _)
GetEvidencePointers(pointer_rows, key) ==
    IF pointer_rows = << >> THEN << >>
    ELSE (IF Head(pointer_rows).memory_id = key
            THEN << Head(pointer_rows).pointer >> ELSE << >>)
         \o GetEvidencePointers(Tail(pointer_rows), key)

\* the dictionary get_agent_memories builds for the row of a key
RowDict(rows, pointer_rows, key) ==
    [memory_id |-> key,
     agent_id |-> rows[key].agent_id,
     description |-> rows[key].description,
     created_at |-> rows[key].created_at,
     last_accessed |-> rows[key].last_accessed,
     importance_score |-> rows[key].importance_score,
     memory_type |-> rows[key].memory_type,
     embedding_vector_ref |-> rows[key].embedding_vector_ref,
     visual_context |-> JsonLoads(rows[key].visual_context_json),
     pointers_to_evidence |-> GetEvidencePointers(pointer_rows, key)]

\* "SELECT ... WHERE agent_id = ? ORDER BY created_at DESC": the orders the
\* keys of the agent's rows can be returned in, rows of one created_at in
\* any order
SelectedOrders(rows, agent_id) ==
    LET keys == {key \in DOMAIN rows : rows[key].agent_id = agent_id}
    IN  {order \in [1..Cardinality(keys) -> keys] :
            /\ \A i, j \in 1..Cardinality(keys) : i # j => order[i] # order[j]
            /\ \A i, j \in 1..Cardinality(keys) :
                  i < j => rows[order[i]].created_at >= rows[order[j]].created_at}

\* no call of get_agent_memories made
NoGot == [agent_id |-> "", memories |-> << >>]

\* nothing raised, and the error of _require_conn
NoStoreError == "none"
NotConnected == "RuntimeError: SQLiteStore is not connected"

\* store.connect()
Connect ==
    /\ ~ connected
    /\ connected' = TRUE
    /\ store_error' = NoStoreError
    /\ UNCHANGED << memory_rows, evidence_rows, uuids, store_clock, got,
                    upsert_log >>
    /\ UNCHANGED outsideStore

\* store.close()
Close ==
    /\ connected
    /\ connected' = FALSE
    /\ store_error' = NoStoreError
    /\ UNCHANGED << memory_rows, evidence_rows, uuids, store_clock, got,
                    upsert_log >>
    /\ UNCHANGED outsideStore

\* store.upsert_memory(memory)
UpsertMemory(memory) ==
    /\ Len(upsert_log) < MaxUpserts
    /\ IF ~ connected
         THEN /\ store_error' = NotConnected
              /\ UNCHANGED << connected, memory_rows, evidence_rows, uuids,
                              store_clock, got, upsert_log >>
         ELSE LET key == IF memory.memory_id = "" THEN Uuid(uuids + 1)
                                                  ELSE memory.memory_id
              IN  /\ uuids' = IF memory.memory_id = "" THEN uuids + 1 ELSE uuids
                  /\ memory_rows' = UpsertedRows(memory_rows, key, memory, store_clock)
                  /\ evidence_rows' = PointersAdded(evidence_rows, key,
                                                    memory.pointers_to_evidence)
                  /\ store_clock' = store_clock + 1
                  /\ store_error' = NoStoreError
                  /\ upsert_log' = Append(upsert_log,
                                          [memory |-> memory, memory_id |-> key,
                                           stored |-> RowDict(memory_rows',
                                                             evidence_rows', key)])
                  /\ UNCHANGED << connected, got >>
    /\ UNCHANGED outsideStore

\* store.get_agent_memories(agent_id, limit)
GetAgentMemories(agent_id, limit) ==
    /\ IF ~ connected
         THEN /\ store_error' = NotConnected
              /\ UNCHANGED got
         ELSE /\ store_error' = NoStoreError
              /\ \E order \in SelectedOrders(memory_rows, agent_id) :
                    got' = [agent_id |-> agent_id,
                            memories |-> Prefix([i \in 1..Len(order) |->
                                                    RowDict(memory_rows, evidence_rows,
                                                            order[i])],
                                                limit)]
    /\ UNCHANGED << connected, memory_rows, evidence_rows, uuids, store_clock,
                    upsert_log >>
    /\ UNCHANGED outsideStore

----------------------------------------------------------------------------
(***************************************************************************)
(* The scheduler's specification.                                          *)
(***************************************************************************)
\* VisualPerceptionService(llm_client, glance_interval_ticks=5, change_threshold=0.10)
PerceptionInit ==
    /\ glance_interval_ticks = 5
    /\ change_threshold = 10
    /\ cache = << >>
    /\ inference = << >>
    /\ llmCalls = 0
    /\ captures = [a \in PerceptionAgents |-> << >>]

\* no call of the retrieval, reflection and planning functions made
CognitionInit ==
    /\ memories = << >>
    /\ relevance_by_embedding_ref = << >>
    /\ called = "none"
    /\ args = Args(0, 0, 0)
    /\ retrieved = << >>
    /\ triggered = FALSE
    /\ insights = << >>
    /\ agenda = NoAgenda
    /\ step = NoStep
    /\ recency_call = NoRecency

\* EmbeddingClient(): "model_name: str = EMBED_MODEL", "batch_size: int =
\* DEFAULT_BATCH_SIZE", "max_retries: int = 3", "retry_backoff_s: float = 0.5"
EmbeddingInit ==
    /\ model_name = "nomic-embed-text"
    /\ batch_size = DefaultBatchSize
    /\ max_retries = 3
    /\ retry_backoff_s = 500
    /\ texts = << >>
    /\ embPc = "idle"
    /\ start = 0
    /\ vectors = << >>
    /\ attempt = 0
    /\ embLog = << >>
    /\ embResult = << >>
    /\ embError = NoEmbedError

CallerInit == stopped_idle = FALSE

SchedulerInit ==
    /\ phase = "new"
    /\ ctorArgs = NoArgs
    /\ ctorError = "none"
    /\ agents = << >>
    /\ tick_interval_s = 0
    /\ max_concurrency = 0
    /\ persist_callback = FALSE
    /\ running = FALSE
    /\ write_lock = FALSE
    /\ latest_snapshot = None
    /\ runPc = "idle"
    /\ total_ticks = 0
    /\ tick_index = 0
    /\ history = << >>
    /\ semaphore = 0
    /\ tasks = << >>
    /\ gatherExc = NoExc
    /\ returnValue = << >>
    /\ raisedExc = NoExc
    /\ persisted = << >>
    /\ tickBegun = [k \in Rounds |-> {}]
    /\ taskEnded = [k \in Rounds |-> {}]
    /\ taskFailed = [k \in Rounds |-> {}]
    /\ stopAt = NoStop
    /\ sleeps = {}

\* Agent(): no memories, no insights, no plan; no tick made
AgentInit ==
    /\ self_memories = << >>
    /\ self_insights = << >>
    /\ current_plan = NoAgenda
    /\ clock = 0
    /\ tickPc = "idle"
    /\ tick_results = << >>
    /\ selected = NoSelection
    /\ tick_log = << >>

\* no call of run_dialogue made
DialogueInit ==
    /\ dlgArgs = NoDialogue
    /\ dlgPc = "idle"
    /\ convo_id = ""
    /\ roles = [speaker |-> "", listener |-> ""]
    /\ turn_index = 0
    /\ transcript = << >>
    /\ dlgResult = << >>
    /\ dlgFailures = 0
    /\ asked = << >>
    /\ added_turns = << >>

\* SQLiteStore(sqlite_path) on a new file: not connected, no rows
StoreInit ==
    /\ connected = FALSE
    /\ memory_rows = << >>
    /\ evidence_rows = << >>
    /\ uuids = 0
    /\ store_clock = 1
    /\ got = NoGot
    /\ store_error = NoStoreError
    /\ upsert_log = << >>

Init ==
    /\ SchedulerInit /\ CallerInit /\ PerceptionInit /\ EmbeddingInit /\ CognitionInit
    /\ AgentInit /\ DialogueInit /\ StoreInit

\* the agent lists the scheduler is run with: one agent too few, the
\* smallest accepted population, and that population with an id used twice
RunAgentLists == {DistinctAgents(MinAgents - 1), DistinctAgents(MinAgents),
                  DuplicateIdAgents(MinAgents)}

\* the max_concurrency arguments the scheduler is run with: rejected, serial,
\* two at a time, and more than the population
RunConcurrencyArgs == {0, 1, 2, MinAgents + 1}

Next ==
    \/ \E list \in RunAgentLists, c \in RunConcurrencyArgs,
          interval \in {0, 1}, cb \in BOOLEAN : Construct(list, c, interval, cb)
    \/ \E total \in 0..MaxTicks : RunStart(total)
    \/ GatherReturn
    \/ GatherRaise
    \/ SleepReturn
    \/ Stop
    \/ \E id \in DOMAIN tasks : TickStart(id)
    \/ \E id \in DOMAIN tasks : TickReturn(id)
    \/ \E id \in DOMAIN tasks : TickRaise(id)
    \/ \E id \in DOMAIN tasks : PersistStart(id)
    \/ \E id \in DOMAIN tasks : PersistReturn(id)
    \/ \E id \in DOMAIN tasks : PersistRaise(id)

Spec == Init /\ [][Next]_vars

(***************************************************************************)
(* The scheduler with ticks and callbacks that all return, and a caller    *)
(* that may call stop() before run() as well as during it.  The event loop *)
(* runs the tasks that are ready, asyncio.sleep returns, and the waiters   *)
(* of asyncio.Semaphore and asyncio.Lock are woken when these are left:    *)
(* as long as a step of run() or of a task is possible, one is taken.      *)
(***************************************************************************)
\* a step of run() past its start, or of one of its tasks
LoopStep ==
    \/ GatherReturn
    \/ SleepReturn
    \/ \E id \in DOMAIN tasks : TickStart(id)
    \/ \E id \in DOMAIN tasks : TickReturn(id)
    \/ \E id \in DOMAIN tasks : PersistStart(id)
    \/ \E id \in DOMAIN tasks : PersistReturn(id)

FairNext ==
    \/ \E list \in RunAgentLists, c \in RunConcurrencyArgs,
          interval \in {0, 1}, cb \in BOOLEAN : Construct(list, c, interval, cb)
    \/ \E total \in 0..MaxTicks : RunStart(total)
    \/ Stop
    \/ StopWhileIdle
    \/ LoopStep

\* the event loop does not idle while a step is possible
Fairness == WF_vars(LoopStep)

FairSpec == Init /\ [][FairNext]_vars /\ Fairness

(***************************************************************************)
(* The constructor alone, over every population size around its range.     *)
(***************************************************************************)
ConstructorSizes == 0..(MaxAgents + ExtraAgents)

ConstructorNext ==
    \E n \in ConstructorSizes, c \in -1..(MaxAgents + ExtraAgents) :
        \E list \in {DistinctAgents(n), DuplicateIdAgents(n)} :
            Construct(list, c, 1, TRUE)

ConstructorSpec == Init /\ [][ConstructorNext]_vars

(***************************************************************************)
(* The perception service's specification: a service built with a glance   *)
(* interval and a change threshold, then captures for two agents over      *)
(* images that stay the same, change a little or change altogether.        *)
(***************************************************************************)
GlanceIntervals == {1, 2, 3}

\* change_threshold = 0.05 (tests) and 0.10 (default), in hundredths
ChangeThresholds == {5, 10}

PerceptionSpecInit ==
    /\ SchedulerInit /\ CallerInit
    /\ EmbeddingInit
    /\ CognitionInit
    /\ AgentInit
    /\ DialogueInit
    /\ StoreInit
    /\ glance_interval_ticks \in GlanceIntervals
    /\ change_threshold \in ChangeThresholds
    /\ cache = << >>
    /\ inference = << >>
    /\ llmCalls = 0
    /\ captures = [a \in PerceptionAgents |-> << >>]

PerceptionNext ==
    \/ \E a \in PerceptionAgents, h \in CapturedHashes :
          CaptureBegin(a, h)
    \/ \E a \in PerceptionAgents : InferenceReturn(a)
    \/ \E a \in PerceptionAgents : InferenceRaise(a)

PerceptionSpec == PerceptionSpecInit /\ [][PerceptionNext]_vars

(***************************************************************************)
(* The embedding client's specification: a client built with a batch size, *)
(* a retry count and a backoff around their lower limits, then one call of *)
(* embed_texts over up to MaxTexts texts.                                  *)
(***************************************************************************)
\* every sequence of at most n texts
TextLists(n) == UNION {[1..k -> TextAlphabet] : k \in 0..n}

\* retry_backoff_s arguments, in milliseconds
BackoffArgs == {-500, 0, 500}

EmbeddingSpecInit ==
    /\ SchedulerInit /\ CallerInit
    /\ PerceptionInit
    /\ CognitionInit
    /\ AgentInit
    /\ DialogueInit
    /\ StoreInit
    /\ model_name \in EmbedModels
    /\ \E b \in 0..MaxTexts : batch_size = Max(b, 1)
    /\ \E r \in -1..MaxRetriesArg : max_retries = Max(r, 0)
    /\ \E s \in BackoffArgs : retry_backoff_s = Max(s, 0)
    /\ texts = << >>
    /\ embPc = "idle"
    /\ start = 0
    /\ vectors = << >>
    /\ attempt = 0
    /\ embLog = << >>
    /\ embResult = << >>
    /\ embError = NoEmbedError

EmbeddingNext ==
    \/ \E input \in TextLists(MaxTexts) : EmbedTexts(input)
    \/ BackendReturn
    \/ \E exc \in TransientFailures : BackendFail(exc)
    \/ BackendError
    \/ BackoffReturn

EmbeddingSpec == EmbeddingSpecInit /\ [][EmbeddingNext]_vars

(***************************************************************************)
(* The specification of retrieval, reflection and planning: a list of at   *)
(* most MaxMemories memories and a relevance map, then one call of one of  *)
(* the functions on them.                                                  *)
(***************************************************************************)
\* every list of at most n memories
MemoryLists(n) == UNION {[1..k -> MemoryProfiles] : k \in 0..n}

\* relevance maps, in thousandths: none; one that lifts m2 to the score of
\* m3; one that also lifts m4 above both
RelevanceMaps ==
    { << >>,
      ("vec:2" :> 5),
      ("vec:2" :> 5 @@ "vec:3" :> 0 @@ "vec:4" :> 60000) }

\* max_insights arguments: around 0 and around the default 3
InsightLimits == -1..4

CognitionSpecInit ==
    /\ SchedulerInit /\ CallerInit
    /\ PerceptionInit
    /\ EmbeddingInit
    /\ AgentInit
    /\ DialogueInit
    /\ StoreInit
    /\ memories \in MemoryLists(MaxMemories)
    /\ relevance_by_embedding_ref \in RelevanceMaps
    /\ called = "none"
    /\ args = Args(0, 0, 0)
    /\ retrieved = << >>
    /\ triggered = FALSE
    /\ insights = << >>
    /\ agenda = NoAgenda
    /\ step = NoStep
    /\ recency_call = NoRecency

\* the hours recency_score is called with: last accesses from 200000 hours
\* (some 23 years) before hour 0 to one hour after it, and hour 0 or 1 as now
LastAccessedArgs ==
    {-200000, -150000, -148601, -148600, -148000, -100000, -2, -1, 0, 1}
NowArgs == {0, 1}

CognitionNext ==
    \/ \E k \in -1..(MaxMemories + 1) : CallRetrieveTopMemories(k)
    \/ CallShouldTriggerReflection
    \/ \E limit \in InsightLimits : CallGenerateHighLevelInsights(limit)
    \/ \E k \in 0..MaxMemories, limit \in {0, 3}, twice \in BOOLEAN :
          CallGenerateHierarchicalPlan(k, limit, twice)
    \/ \E duration \in 0..MaxDurationArg : CallActionStep(duration)
    \/ \E last_accessed \in LastAccessedArgs, now \in NowArgs :
           CallRecencyScore(last_accessed, now)

CognitionSpec == CognitionSpecInit /\ [][CognitionNext]_vars

(***************************************************************************)
(* The specification of the agent: an agent built with one of the memory   *)
(* lists, ticked at most MaxAgentTicks times while the clock advances, its *)
(* current_plan assigned and its select_action called by a client.         *)
(***************************************************************************)
AgentSpecInit ==
    /\ SchedulerInit /\ CallerInit
    /\ PerceptionInit
    /\ EmbeddingInit
    /\ CognitionInit
    /\ DialogueInit
    /\ StoreInit
    /\ self_memories \in AgentMemoryLists
    /\ self_insights = << >>
    /\ current_plan = NoAgenda
    /\ clock = 0
    /\ tickPc = "idle"
    /\ tick_results = << >>
    /\ selected = NoSelection
    /\ tick_log = << >>

AgentNext ==
    \/ \E relevance_map \in AgentRelevanceMaps, sleep_s \in SleepArgs :
           AgentTick(relevance_map, sleep_s)
    \/ AgentTickReturn
    \/ ClockAdvance
    \/ \E plan \in AssignedAgendas : AssignCurrentPlan(plan)
    \/ CallSelectAction

AgentSpec == AgentSpecInit /\ [][AgentNext]_vars

(***************************************************************************)
(* The specification of the dialogue: one call of run_dialogue, with two   *)
(* of the agents on two of the tiles, turns in -1..MaxTurns, with or       *)
(* without a conversation id and a store.                                  *)
(***************************************************************************)
DialogueCalls ==
    [first_agent : Talkers, second_agent : Talkers, first_position : Tiles,
     second_position : Tiles, turns : -1..MaxTurns,
     conversation_id : ConversationIds, store : Stores]

DialogueNext ==
    \/ \E call \in DialogueCalls : RunDialogue(call)
    \/ \E utterance \in Utterances : SpeakReturn(utterance)
    \/ AddDialogueTurnReturn
    \/ DialogueRaise

DialogueSpec == Init /\ [][DialogueNext]_vars

(***************************************************************************)
(* The specification of the store: connect and close, at most MaxUpserts   *)
(* calls of upsert_memory, and calls of get_agent_memories.                *)
(***************************************************************************)
StoreAgents == {"a1", "a2"}
Limits == {1, DefaultLimit}

StoreNext ==
    \/ Connect
    \/ Close
    \/ \E memory \in MemoryDicts : UpsertMemory(memory)
    \/ \E agent_id \in StoreAgents, limit \in Limits :
           GetAgentMemories(agent_id, limit)

StoreSpec == Init /\ [][StoreNext]_vars

----------------------------------------------------------------------------
(***************************************************************************)
(* Properties of the scheduler.                                            *)
(***************************************************************************)
\* the tasks that hold a semaphore slot
Holders == {id \in DOMAIN tasks : tasks[id].pc \in {"ticking", "lockwait", "persisting"}}

\* the tasks whose tick is in flight
Ticking == {id \in DOMAIN tasks : tasks[id].pc = "ticking"}

\* the tasks whose callback invocation is in progress
Persisting == {id \in DOMAIN tasks : tasks[id].pc = "persisting"}

\* the agents passed to the constructor carry pairwise distinct ids
DistinctIds == Cardinality(DOMAIN agents) = Len(ctorArgs.agents)

\* no task of the run has raised
NoFailure == \A k \in Rounds : taskFailed[k] = {}

\* C1: a run(T), T >= 1, of a scheduler over P agents with distinct ids and a
\* callback, neither stopped nor hit by a failure, has invoked the callback
\* exactly once for every (agent, tick_index) with tick_index in 0..T-1, T*P
\* times in all, and returns T snapshots with tick_index 0..T-1 in that
\* order, each with P agent entries.
C1_RunPersistsAndSnapshotsAll ==
    ( /\ runPc = "returned"
      /\ total_ticks >= 1
      /\ persist_callback
      /\ DistinctIds
      /\ stopAt = NoStop
      /\ NoFailure )
    => LET P == Len(ctorArgs.agents)
           T == total_ticks
       IN  /\ DOMAIN persisted = (DOMAIN agents) \X (0..(T - 1))
           /\ \A key \in DOMAIN persisted : Len(persisted[key]) = 1
           /\ Cardinality(DOMAIN persisted) = T * P
           /\ Len(returnValue) = T
           /\ \A i \in 1..T :
                /\ returnValue[i].tick_index = i - 1
                /\ Cardinality(DOMAIN returnValue[i].agent_outputs) = P

C1_Witness ==
    /\ runPc = "returned"
    /\ total_ticks = 2
    /\ persist_callback
    /\ DistinctIds
    /\ stopAt = NoStop
    /\ NoFailure
    /\ max_concurrency = 2
    /\ Len(returnValue) = 2
    /\ Cardinality(DOMAIN persisted) = 10

\* C2: at no point are two invocations of the persistence callback in
\* progress at the same time, while the ticks may overlap.
C2_PersistenceWritesSerialized == Cardinality(Persisting) <= 1

C2_Witness ==
    /\ Cardinality(Persisting) = 1
    /\ \E id \in DOMAIN tasks : tasks[id].pc = "lockwait"
    /\ Cardinality(Ticking) >= 2

\* C3: the number of tasks holding a semaphore slot never exceeds
\* min(max_concurrency, population size), so no more ticks than that are in
\* flight; with max_concurrency = 1 the ticks run one at a time.
C3_BoundedConcurrency ==
    phase = "constructed"
    => /\ Cardinality(Holders) <= Min(ctorArgs.max_concurrency, Cardinality(DOMAIN agents))
       /\ Cardinality(Ticking) <= Min(ctorArgs.max_concurrency, Cardinality(DOMAIN agents))
       /\ ctorArgs.max_concurrency = 1 => Cardinality(Holders) <= 1

C3_Witness ==
    /\ ctorArgs.max_concurrency = 2
    /\ Cardinality(Holders) = 2
    /\ Cardinality(Ticking) = 2
    /\ \E id \in DOMAIN tasks : tasks[id].pc = "created"

\* C4: no tick of round k+1 starts until every task of round k has ended
\* (tick and persistence write) and the snapshot of round k has been appended
\* to the history.
C4_RoundOrderStrict ==
    \A k \in Rounds :
        (k + 1 \in Rounds /\ tickBegun[k + 1] # {})
        => /\ taskEnded[k] = DOMAIN agents
           /\ taskFailed[k] = {}
           /\ Len(history) >= k + 1
           /\ history[k + 1].tick_index = k
           /\ persist_callback =>
                \A id \in DOMAIN agents : << id, k >> \in DOMAIN persisted

C4_Witness ==
    /\ tickBegun[1] # {}
    /\ tickBegun[1] # DOMAIN agents
    /\ persist_callback
    /\ max_concurrency > 1

\* C5: a stop() issued while round k is in flight lets every tick and
\* persistence write of round k complete and the snapshot of round k be
\* appended, no tick of round k+1 is ever started, and run returns exactly
\* k+1 snapshots.
C5_StopIsRoundGranular ==
    stopAt.during = "gather"
    => LET k == stopAt.round
       IN  /\ \A j \in Rounds : j > k => tickBegun[j] = {}
           /\ tick_index = k
           /\ runPc \in {"gather", "sleep", "returned", "raised"}
           /\ runPc = "returned"
                => /\ Len(returnValue) = k + 1
                   /\ returnValue[k + 1].tick_index = k
                   /\ DOMAIN returnValue[k + 1].agent_outputs = DOMAIN agents
                   /\ taskEnded[k] = DOMAIN agents
                   /\ taskFailed[k] = {}
                   /\ persist_callback =>
                        \A id \in DOMAIN agents : << id, k >> \in DOMAIN persisted

C5_Witness ==
    /\ stopAt = [round |-> 0, during |-> "gather"]
    /\ total_ticks = 2
    /\ persist_callback
    /\ runPc = "returned"
    /\ Len(returnValue) = 1

\* C6: a tick or callback that raises in round k is never swallowed: run
\* does not return a history but raises that failure, no snapshot of round k
\* is recorded (latest_snapshot stays the snapshot of round k-1, None for
\* k = 0), and no tick of round k+1 is started.
C6_RoundFailurePropagates ==
    /\ runPc = "returned" => NoFailure
    /\ \A k \in Rounds :
          taskFailed[k] # {}
          => /\ runPc \in {"gather", "raised"}
             /\ tick_index = k
             /\ Len(history) = k
             /\ latest_snapshot = IF k = 0 THEN None ELSE history[k]
             /\ k > 0 => latest_snapshot.tick_index = k - 1
             /\ \A j \in Rounds : j > k => tickBegun[j] = {}
    /\ runPc = "raised"
          => /\ raisedExc # NoExc
             /\ raisedExc.round = tick_index
             /\ raisedExc.agent_id \in taskFailed[tick_index]

C6_Witness ==
    /\ runPc = "raised"
    /\ tick_index = 1
    /\ raisedExc.raised_by = "persist"
    /\ latest_snapshot = history[1]
    /\ Len(history) = 1

\* C9: latest_snapshot is None until a round has completed, and then it is
\* the snapshot of the most recently completed round: the last one appended
\* to the history, made only after every task of that round had ended, and
\* holding the output of every agent of that round.
C9_LatestSnapshotIsLastCompletedRound ==
    /\ latest_snapshot = None <=> Len(history) = 0
    /\ latest_snapshot # None
          => LET k == latest_snapshot.tick_index
             IN  /\ latest_snapshot = history[Len(history)]
                 /\ k = Len(history) - 1
                 /\ k \in Rounds
                 /\ taskEnded[k] = DOMAIN agents
                 /\ taskFailed[k] = {}
                 /\ DOMAIN latest_snapshot.agent_outputs = DOMAIN agents
                 /\ \A id \in DOMAIN agents :
                        latest_snapshot.agent_outputs[id] = TickResult(agents[id], k)

C9_Witness ==
    /\ latest_snapshot # None
    /\ latest_snapshot.tick_index = 0
    /\ runPc = "gather"
    /\ tick_index = 1
    /\ \E id \in DOMAIN tasks : tasks[id].pc = "done"
    /\ \E id \in DOMAIN tasks : tasks[id].pc = "ticking"

(***************************************************************************)
(* Properties of the constructor.                                          *)
(***************************************************************************)
\* C7: with max_concurrency >= 1, constructing a scheduler over n agents
\* succeeds iff 5 <= n <= 25; 4 and 26 and every other size outside the
\* range are rejected with a validation error and no scheduler exists; 5 and
\* 25 are accepted.
C7_ConstructionIffPopulationInRange ==
    (phase # "new" /\ ctorArgs.max_concurrency >= 1)
    => LET n == Len(ctorArgs.agents)
       IN  /\ phase = "constructed" <=> (5 <= n /\ n <= 25)
           /\ n \in {4, 26} => phase = "rejected"
           /\ n \in {5, 25} => phase = "constructed"
           /\ phase = "rejected"
                => /\ ctorError = "ValueError: agents"
                   /\ agents = << >>
                   /\ max_concurrency = 0
           /\ phase = "constructed"
                => /\ ctorError = "none"
                   /\ DOMAIN agents = {ctorArgs.agents[i] : i \in 1..n}

C7_Witness ==
    /\ phase = "constructed"
    /\ Len(ctorArgs.agents) = 25
    /\ Cardinality(DOMAIN agents) = 25

\* C8: a requested max_concurrency < 1 is rejected with a validation error;
\* in every constructed scheduler the effective max_concurrency is
\* min(requested max_concurrency, number of agents passed), hence in
\* 1..number of agents passed.
C8_ConcurrencyValidatedAndCapped ==
    /\ (phase # "new" /\ ctorArgs.max_concurrency < 1)
          => /\ phase = "rejected"
             /\ ctorError # "none"
    /\ phase = "constructed"
          => /\ max_concurrency = Min(ctorArgs.max_concurrency, Len(ctorArgs.agents))
             /\ max_concurrency \in 1..Len(ctorArgs.agents)

C8_Witness ==
    /\ phase = "constructed"
    /\ ctorArgs.max_concurrency > Len(ctorArgs.agents)
    /\ max_concurrency = Len(ctorArgs.agents)

(***************************************************************************)
(* Properties of the perception cache.                                     *)
(***************************************************************************)
\* every capture of agent a so far saw the same fingerprint, and no backend
\* call of a raised
Unchanging(a) ==
    \A i \in 1..Len(captures[a]) :
        /\ captures[a][i].hash = captures[a][1].hash
        /\ captures[a][i].outcome # "raised"

InferredAmong(a, n) ==
    {i \in 1..n : captures[a][i].inferred}

\* C11: with an unchanging viewport, glance_interval_ticks = 3 and
\* change_threshold = 0.05, three consecutive captures of one agent invoke
\* the vision backend exactly 2 times in total, and the first and the
\* second capture return equal descriptions.
C11_ThreeCapturesTwoBackendCalls ==
    \A a \in PerceptionAgents :
        ( /\ glance_interval_ticks = 3
          /\ change_threshold = 5
          /\ Unchanging(a)
          /\ Len(captures[a]) >= 3
          /\ \A i \in 1..3 : captures[a][i].outcome = "returned" )
        => /\ Cardinality(InferredAmong(a, 3)) = 2
           /\ captures[a][1].description = captures[a][2].description

\* the cache entry of agent a as a capture_and_describe call finds it
CachedState(a) ==
    IF a \in DOMAIN cache THEN cache[a] ELSE NewCacheState

\* the number of positions at which the cached fingerprint of a and h carry
\* the same hex character; 0 without a cached fingerprint or when the
\* lengths differ
MatchingPositions(a, h) ==
    LET cached == CachedState(a).image_hash
    IN  IF cached = NoHash \/ Len(cached) # Len(h)
          THEN 0
          ELSE Cardinality({i \in 1..Len(h) : cached[i] = h[i]})

\* a capture_and_describe call of agent a is taking its step up to the
\* backend call or to the return of the cached description
CaptureCalled(a) ==
    Len(captures'[a]) = Len(captures[a]) + 1

InferenceReturned(a) ==
    /\ a \in DOMAIN inference
    /\ a \notin DOMAIN inference'
    /\ captures'[a][Len(captures'[a])].outcome = "returned"

\* C13: when a capture_and_describe call runs inference, the agent's cached
\* description and fingerprint are replaced by the new ones and its
\* ticks_since_inference becomes 0; when it does not, the description it
\* returns is the cached one, the cached description and fingerprint stay
\* as they were, and ticks_since_inference is one greater than before.
C13_CacheUpdatedOrCounted ==
    [][ \A a \in PerceptionAgents :
          /\ InferenceReturned(a)
             => LET call == captures'[a][Len(captures'[a])]
                IN  /\ call.inferred
                    /\ call.description = inference[a].description
                    /\ cache'[a].last_description = call.description
                    /\ cache'[a].last_description # NoDescription
                    /\ cache'[a].image_hash = call.hash
                    /\ cache'[a].ticks_since_inference = 0
          /\ (CaptureCalled(a) /\ ~ captures'[a][Len(captures'[a])].inferred)
             => LET call == captures'[a][Len(captures'[a])]
                IN  /\ call.outcome = "returned"
                    /\ call.description = CachedState(a).last_description
                    /\ call.description # NoDescription
                    /\ cache'[a].last_description = CachedState(a).last_description
                    /\ cache'[a].image_hash = CachedState(a).image_hash
                    /\ cache'[a].ticks_since_inference
                          = CachedState(a).ticks_since_inference + 1
      ]_vars

\* agent a has refreshed its cache by a second inference, for a changed
\* fingerprint, after a capture that used the cache and counted one tick,
\* and has used the refreshed cache since
C13_Witness ==
    \E a \in PerceptionAgents :
        /\ Len(captures[a]) = 4
        /\ captures[a][1].outcome = "returned"
        /\ ~ captures[a][2].inferred
        /\ captures[a][3].inferred
        /\ captures[a][3].outcome = "returned"
        /\ captures[a][3].hash # captures[a][1].hash
        /\ captures[a][3].description # captures[a][1].description
        /\ ~ captures[a][4].inferred
        /\ captures[a][4].description = captures[a][3].description
        /\ cache[a].last_description = captures[a][3].description
        /\ cache[a].image_hash = captures[a][3].hash
        /\ cache[a].ticks_since_inference = 1

----------------------------------------------------------------------------
(***************************************************************************)
(* Properties of the embedding client.                                     *)
(***************************************************************************)
\* the positions in the log of the backend requests for the batch at from
Attempts(from) ==
    {i \in 1..Len(embLog) : embLog[i].kind = "attempt" /\ embLog[i].start = from}

\* the starts of the batches requested so far
BatchStarts == {embLog[i].start : i \in 1..Len(embLog)}

\* C14: for each batch the client makes at most max_retries + 1 backend
\* attempts; no attempt follows a successful one for that batch; when all
\* max_retries + 1 attempts have failed with a caught exception the call
\* raises the wrapped failure carrying the attempt count max_retries + 1
\* and the model name; with max_retries = 0 a batch is attempted once.
C14_BoundedRetries ==
    \A from \in BatchStarts :
        /\ Cardinality(Attempts(from)) <= max_retries + 1
        /\ max_retries = 0 => Cardinality(Attempts(from)) = 1
        /\ \A i \in Attempts(from) :
              embLog[i].outcome = "ok" => \A j \in Attempts(from) : j <= i
        /\ ( /\ Cardinality(Attempts(from)) = max_retries + 1
             /\ \A i \in Attempts(from) : embLog[i].outcome = "failed" )
           <=> ( /\ embPc = "raised"
                 /\ from = start
                 /\ embError.type = "RuntimeError" )
        /\ (embPc = "raised" /\ embError.type = "RuntimeError")
           => /\ embError.attempts = max_retries + 1
              /\ embError.model = model_name
              /\ embError.cause \in TransientFailures
              /\ embLog[Len(embLog)].kind = "attempt"

\* the second batch of a call has been given up after three attempts by a
\* client with max_retries = 2
C14_Witness ==
    /\ max_retries = 2
    /\ embPc = "raised"
    /\ embError = WrappedFailure(3, model_name, "TimeoutError")
    /\ start > 0
    /\ Cardinality(Attempts(start)) = 3
    /\ \E i \in Attempts(0) : embLog[i].outcome = "ok"

\* the number of sleeps for the batch at from among the first i log entries
SleepsUpTo(from, i) ==
    Cardinality({j \in 1..i : embLog[j].kind = "sleep" /\ embLog[j].start = from})

\* C15: the sleep before the i-th retry of a batch lasts
\* retry_backoff_s * 2^(i-1); every sleep follows a failed attempt and is
\* followed by the next attempt of the same batch; two consecutive attempts
\* of a batch have a sleep between them; no sleep follows a success or the
\* final failed attempt.
C15_ExponentialBackoff ==
    /\ \A i \in 1..Len(embLog) :
          embLog[i].kind = "sleep"
          => /\ embLog[i].sleep_s
                   = retry_backoff_s * (2 ^ (SleepsUpTo(embLog[i].start, i) - 1))
             /\ SleepsUpTo(embLog[i].start, i) <= max_retries
             /\ i > 1
             /\ embLog[i - 1].kind = "attempt"
             /\ embLog[i - 1].outcome = "failed"
             /\ embLog[i - 1].start = embLog[i].start
             /\ i < Len(embLog)
                   => /\ embLog[i + 1].kind = "attempt"
                      /\ embLog[i + 1].start = embLog[i].start
    /\ \A i \in 1..(Len(embLog) - 1) :
          (embLog[i].kind = "attempt" /\ embLog[i + 1].kind = "attempt")
          => /\ embLog[i].outcome = "ok"
             /\ embLog[i + 1].start # embLog[i].start
    /\ (embPc = "sleep") <=> (embLog # << >> /\ embLog[Len(embLog)].kind = "sleep")
    /\ (embPc \in {"returned", "raised"} /\ embLog # << >>)
          => embLog[Len(embLog)].outcome \in {"ok", "failed", "error"}

\* a batch has been retried twice, after sleeps of 500 and 1000 ms, and
\* given up without a third sleep
C15_Witness ==
    /\ retry_backoff_s = 500
    /\ max_retries = 2
    /\ embPc = "raised"
    /\ Len(embLog) = 5
    /\ embLog[2] = SleepEvent(0, 500)
    /\ embLog[4] = SleepEvent(0, 1000)
    /\ embLog[5].outcome = "failed"

\* the positions in the log of the requests the backend answered
AnsweredRequests == {i \in 1..Len(embLog) : embLog[i].outcome = "ok"}

\* C16: embed_texts sends consecutive slices of at most batch_size texts to
\* the backend, in order, and returns the concatenation of the answers: the
\* result has the input's length and its i-th vector is the vector of the
\* i-th text; an empty input returns an empty list without a backend call.
C16_OrderPreservedAcrossBatches ==
    /\ \A i \in 1..Len(embLog) :
          embLog[i].kind = "attempt"
          => LET from == embLog[i].start
                 batch == embLog[i].batch
             IN  /\ Len(batch) \in 1..batch_size
                 /\ from + Len(batch) <= Len(texts)
                 /\ \A k \in 1..Len(batch) : batch[k] = texts[from + k]
                 /\ Len(batch) < batch_size => from + Len(batch) = Len(texts)
                 /\ from = batch_size * Cardinality({j \in AnsweredRequests : j < i})
    /\ Len(vectors) = Min(batch_size * Cardinality(AnsweredRequests), Len(texts))
    /\ \A i \in 1..Len(vectors) : vectors[i] = Vector(texts[i])
    /\ embPc = "returned"
          => /\ embResult = vectors
             /\ Len(embResult) = Len(texts)
             /\ \A i \in 1..Len(texts) : embResult[i] = Vector(texts[i])
             /\ texts = << >> => (embResult = << >> /\ embLog = << >>)

\* three texts, not all the same, have been embedded in two batches, the
\* second of them after a retry
C16_Witness ==
    /\ embPc = "returned"
    /\ texts = << "a", "b", "a" >>
    /\ batch_size = 2
    /\ embResult = << Vector("a"), Vector("b"), Vector("a") >>
    /\ Cardinality(AnsweredRequests) = 2
    /\ Cardinality(Attempts(2)) = 2

----------------------------------------------------------------------------
(***************************************************************************)
(* Properties of retrieval, reflection and planning.                       *)
(***************************************************************************)
\* the final score of the p-th memory of the input: recency + importance +
\* relevance, the relevance being 0 for an embedding key absent from the map
ScoreAt(p) ==
    RecencyScore(memories[p].last_accessed, 0)
      + memories[p].importance_score * 1000
      + (IF memories[p].embedding_vector_ref \in DOMAIN relevance_by_embedding_ref
           THEN relevance_by_embedding_ref[memories[p].embedding_vector_ref]
           ELSE 0)

\* the place of the p-th memory of the input in the stable descending
\* order: behind every memory of higher score and every earlier memory of
\* the same score
RankAt(p) ==
    1 + Cardinality({q \in 1..Len(memories) :
                        \/ ScoreAt(q) > ScoreAt(p)
                        \/ ScoreAt(q) = ScoreAt(p) /\ q < p})

\* C17: for top_k >= 0, retrieve_top_memories returns min(top_k, n) items
\* in non-increasing order of final score = recency + importance +
\* relevance; the item at place r is the memory of rank r in the stable
\* descending order of the input, so that equal scores keep their input
\* order and no memory is left out in favour of a lower-ranked one.
C17_TopKOfStableDescendingOrder ==
    (called = "retrieve_top_memories" /\ args.top_k >= 0)
    => /\ Len(retrieved) <= args.top_k
       /\ Len(retrieved) = Min(args.top_k, Len(memories))
       /\ \A i \in 1..Len(retrieved) :
             /\ retrieved[i].final_score
                   = retrieved[i].recency + retrieved[i].importance
                       + retrieved[i].relevance
             /\ \A j \in 1..Len(retrieved) :
                   i < j => retrieved[i].final_score >= retrieved[j].final_score
       /\ \A p \in 1..Len(memories) :
             RankAt(p) <= args.top_k
             => /\ retrieved[RankAt(p)].memory = memories[p]
                /\ retrieved[RankAt(p)].final_score = ScoreAt(p)

\* the top 2 of a list in which m2 and m3 tie behind m1: m3, the earlier of
\* the two in the input, is returned and m2 is left out
C17_Witness ==
    /\ called = "retrieve_top_memories"
    /\ args.top_k = 2
    /\ Len(memories) = 4
    /\ memories[1].description = "m4"
    /\ memories[2].description = "m3"
    /\ memories[3].description = "m2"
    /\ memories[4].description = "m1"
    /\ ScoreAt(2) = ScoreAt(3)
    /\ Len(retrieved) = 2
    /\ retrieved[1].memory = memories[4]
    /\ retrieved[2].memory = memories[2]

\* the sum of the importance scores of the memories passed in
ImportanceTotal ==
    LET RECURSIVE Total(_)
        Total(k) == IF k = 0 THEN 0 ELSE memories[k].importance_score + Total(k - 1)
    IN  Total(Len(memories))

\* C18: should_trigger_reflection(memories) is true iff the sum of the
\* importance scores strictly exceeds 150: a sum of exactly 150 gives
\* false, and so does an empty list.
C18_TriggerIffSumAbove150 ==
    called = "should_trigger_reflection"
    => /\ triggered <=> ImportanceTotal > 150
       /\ ImportanceTotal = 150 => ~ triggered
       /\ memories = << >> => ~ triggered

\* the call has returned false for two memories whose importance adds up
\* to exactly 150
C18_Witness ==
    /\ called = "should_trigger_reflection"
    /\ Len(memories) = 2
    /\ memories[1].importance_score = 100
    /\ memories[2].importance_score = 50
    /\ ~ triggered

\* the number of insights generate_high_level_insights builds before it
\* cuts the list: one, one more for a mean importance of at least 50, one
\* more for at least 4 memories
InsightsBuilt ==
    1 + (IF ImportanceTotal >= 50 * Len(memories) THEN 1 ELSE 0)
      + (IF Len(memories) >= 4 THEN 1 ELSE 0)

\* C19 as stated: generate_high_level_insights returns an empty list for
\* an empty input and, for n >= 1 memories, exactly min(max_insights,
\* 1 + [mean importance >= 50] + [n >= 4]) insights, whatever max_insights.
C19_InsightCountAnyLimit ==
    called = "generate_high_level_insights"
    => /\ memories = << >> => insights = << >>
       /\ memories # << >>
             => Len(insights) = Min(args.max_insights, InsightsBuilt)

\* C19, amended: an empty input gives an empty list; n >= 1 memories give
\* exactly min(max_insights, 1 + [mean importance >= 50] + [n >= 4])
\* insights when max_insights >= 0, and that many less |max_insights| (at
\* least 0) when max_insights < 0; with the default max_insights = 3, 4 or
\* more memories of mean importance >= 50 give exactly 3 insights and fewer
\* than 4 memories of mean importance < 50 give exactly 1.
C19_InsightCount ==
    called = "generate_high_level_insights"
    => /\ memories = << >> => insights = << >>
       /\ (memories # << >> /\ args.max_insights >= 0)
             => Len(insights) = Min(args.max_insights, InsightsBuilt)
       /\ (memories # << >> /\ args.max_insights < 0)
             => Len(insights) = Max(InsightsBuilt + args.max_insights, 0)
       /\ ( /\ args.max_insights = 3
            /\ Len(memories) >= 4
            /\ ImportanceTotal >= 50 * Len(memories) )
          => Len(insights) = 3
       /\ ( /\ args.max_insights = 3
            /\ Len(memories) \in 1..3
            /\ ImportanceTotal < 50 * Len(memories) )
          => Len(insights) = 1

\* four memories of mean importance exactly 50 have given three insights
\* under the default max_insights
C19_Witness ==
    /\ called = "generate_high_level_insights"
    /\ args.max_insights = 3
    /\ Len(memories) = 4
    /\ ImportanceTotal = 200
    /\ Len(insights) = 3
    /\ insights[2].metadata.signal = "high_importance"
    /\ insights[3].metadata.signal = "temporal_shift"

\* the action steps of an agenda, block by block
AgendaSteps(a) ==
    {<< b, s >> \in (1..Len(a.hourly_plan)) \X (1..3) :
        s <= Len(a.hourly_plan[b].actions)}

\* C20: every DailyAgenda generate_hierarchical_plan produces, for any
\* retrieved memories and insights, both possibly empty, has at least one
\* hourly block, and all its action steps last between 5 and 15 minutes;
\* ActionStep cannot be constructed with a duration outside 5..15.
C20_AgendaNeverEmptyStepsWithinBounds ==
    /\ called = "generate_hierarchical_plan"
          => /\ agenda # NoAgenda
             /\ Len(agenda.hourly_plan) >= 1
             /\ \A b \in 1..Len(agenda.hourly_plan) :
                   /\ Len(agenda.hourly_plan[b].actions) <= 3
                   /\ \A s \in 1..Len(agenda.hourly_plan[b].actions) :
                         /\ agenda.hourly_plan[b].actions[s].duration_minutes >= 5
                         /\ agenda.hourly_plan[b].actions[s].duration_minutes <= 15
    /\ called = "ActionStep"
          => /\ (args.duration_minutes < 5 \/ args.duration_minutes > 15)
                   <=> step = ValidationError
             /\ step # ValidationError
                   => /\ step.duration_minutes = args.duration_minutes
                      /\ step.duration_minutes \in 5..15

\* a plan has been made from no retrieved memory and no insight
C20_Witness ==
    /\ called = "generate_hierarchical_plan"
    /\ retrieved = << >>
    /\ insights = << >>
    /\ memories # << >>
    /\ Len(agenda.hourly_plan) = 1
    /\ Cardinality(AgendaSteps(agenda)) = 3
    /\ Len(agenda.goals) = 1

----------------------------------------------------------------------------
(***************************************************************************)
(* Further properties of the scheduler.                                    *)
(***************************************************************************)
\* C28: whenever no run invocation is executing - before the first, after
\* one that completed its rounds, observed stop() or raised a round's
\* failure - the running flag is false.
C28_NotRunningOutsideRun ==
    runPc \in {"idle", "returned", "raised"} => ~ running

\* C29: once run has raised because a tick or a callback of round k
\* failed, no agent tick and no persistence callback of that invocation is
\* executing.
C29_NoWorkAfterRunRaised ==
    runPc = "raised" => (Ticking = {} /\ Persisting = {})

\* the rounds whose snapshot has been assembled
Assembled == {k \in Rounds : k < Len(history)}

\* C30: the persistence callback is invoked for agent a and round k with
\* exactly the result a.tick(k) returned, once, after that tick has
\* completed and before the snapshot of round k is assembled; with a
\* callback configured, the snapshot of round k maps every agent's id to
\* the result its callback invocation was given.
C30_CallbackGetsTickResultBeforeSnapshot ==
    /\ \A key \in DOMAIN persisted :
          LET id == key[1]
              k == key[2]
          IN  /\ persist_callback
              /\ id \in DOMAIN agents
              /\ k \in Rounds
              /\ persisted[key] = << TickResult(agents[id], k) >>
              /\ id \in tickBegun[k]
              /\ k = tick_index
                    => /\ tasks[id].pc \in {"persisting", "done", "failed"}
                       /\ tasks[id].result = persisted[key][1]
              /\ k \notin Assembled => (k = tick_index /\ runPc \in {"gather", "raised"})
    /\ \A id \in Persisting : tick_index \notin Assembled
    /\ \A k \in Assembled :
          /\ persist_callback
                => \A id \in DOMAIN agents :
                      /\ << id, k >> \in DOMAIN persisted
                      /\ history[k + 1].agent_outputs[id] = persisted[<< id, k >>][1]
          /\ ~ persist_callback => DOMAIN persisted = {}

\* the snapshots of two rounds have been assembled, each after the callback
\* had been given the result of every agent for that round
C30_Witness ==
    /\ persist_callback
    /\ runPc = "returned"
    /\ Len(history) = 2
    /\ \A id \in DOMAIN agents :
          /\ persisted[<< id, 0 >>] = << TickResult(agents[id], 0) >>
          /\ persisted[<< id, 1 >>] = << TickResult(agents[id], 1) >>
          /\ history[2].agent_outputs[id] = TickResult(agents[id], 1)

----------------------------------------------------------------------------
(***************************************************************************)
(* Properties of the agent's tick.                                         *)
(***************************************************************************)
\* the summaries of the first three of a list of insights
GoalsOf(insight_list) ==
    [i \in 1..Len(Prefix(insight_list, 3)) |-> insight_list[i].summary]

\* the ticks made so far
Ticks == 1..Len(tick_log)

\* C21: in every tick the goals of the plan are built from the insights that
\* tick generated: their summaries (up to 3) when it generated some, and the
\* single fallback goal when it generated none, whatever earlier ticks
\* generated.
C21_GoalsFromInsightsOfSameTick ==
    \A t \in Ticks :
        LET result == tick_log[t].result IN
        IF result.insights # << >>
          THEN result.plan.goals = GoalsOf(result.insights)
          ELSE result.plan.goals = << FallbackGoal >>

\* the positions of the memories a tick retrieved
PositionsOf(t) ==
    RetrievedPositions(tick_log[t].memories_before, tick_log[t].relevance,
                       DefaultTopK, tick_log[t].result.timestamp)

\* self.memories when tick t was called, as the tick before (or the
\* constructor) left it
LeftBefore(t) ==
    IF t = 1 THEN tick_log[1].memories_before ELSE tick_log[t - 1].memories_after

\* C22: a tick sets last_accessed of every memory it retrieved to the
\* timestamp of its result and changes no other field and no other memory;
\* the list keeps its length and its order, also between ticks.
C22_TickMarksExactlyTheRetrieved ==
    /\ \A t \in Ticks :
         LET before == tick_log[t].memories_before
             after == tick_log[t].memories_after
             result == tick_log[t].result
             positions == PositionsOf(t)
         IN  /\ Len(after) = Len(before)
             /\ before = LeftBefore(t)
             /\ Len(result.retrieved) = Len(positions)
             /\ \A j \in 1..Len(positions) :
                    /\ after[positions[j]].last_accessed = result.timestamp
                    /\ result.retrieved[j].memory = after[positions[j]]
             /\ \A i \in 1..Len(before) :
                    /\ [after[i] EXCEPT !.last_accessed = 0]
                          = [before[i] EXCEPT !.last_accessed = 0]
                    /\ i \notin Elements(positions)
                          => after[i].last_accessed = before[i].last_accessed
    /\ Ticks # {} => self_memories = tick_log[Len(tick_log)].memories_after

\* a second tick, two hours after the first, has retrieved other memories
\* than the first and left one memory unmarked
C22_Witness ==
    /\ Len(tick_log) = 2
    /\ tick_log[2].result.timestamp = 2
    /\ tick_log[1].result.timestamp = 0
    /\ Elements(PositionsOf(1)) # Elements(PositionsOf(2))
    /\ \E i \in 1..Len(self_memories) :
          /\ i \notin Elements(PositionsOf(2))
          /\ self_memories[i].last_accessed = 0
    /\ \E i \in Elements(PositionsOf(2)) :
          tick_log[2].memories_before[i].last_accessed # 2

\* the blocks of a plan that have actions
BlocksWithActions(plan) ==
    {b \in 1..Len(plan.hourly_plan) : plan.hourly_plan[b].actions # << >>}

\* C23: select_action returns the title of the first action of the first
\* block that has actions, and a sentinel when there is no plan or no block
\* has actions; the action of every tick result is the first action of the
\* first block of the plan of that result.
C23_SelectActionFirstActionOrSentinel ==
    /\ \/ selected = NoSelection
       \/ selected.plan = NoAgenda /\ selected.action = NoPlanAvailable
       \/ /\ selected.plan # NoAgenda
          /\ BlocksWithActions(selected.plan) = {}
          /\ selected.action = NoActionAvailable
       \/ \E b \in BlocksWithActions(selected.plan) :
             /\ \A c \in 1..(b - 1) : c \notin BlocksWithActions(selected.plan)
             /\ selected.action = selected.plan.hourly_plan[b].actions[1].title
    /\ \A t \in 1..Len(tick_results) :
          LET result == tick_results[t] IN
          /\ result = tick_log[t].result
          /\ result.plan # NoAgenda
          /\ 1 \in BlocksWithActions(result.plan)
          /\ result.action = result.plan.hourly_plan[1].actions[1].title
          /\ result.action \notin {NoPlanAvailable, NoActionAvailable}

\* after a tick returned, select_action was called on a plan whose second
\* block is the first with actions
C23_Witness ==
    /\ Len(tick_results) >= 1
    /\ selected.plan \in AssignedAgendas
    /\ BlocksWithActions(selected.plan) = {2}
    /\ selected.action = << "Walk" >>

\* the importance scores of a list of memories
Importances(mems) == [i \in 1..Len(mems) |-> mems[i].importance_score]

\* tick t was made on five memories of importance 20, 200, 10, 5, 5, none of
\* them given a relevance, at the hour all of them were accessed last
EndToEndCase(t) ==
    /\ Importances(tick_log[t].memories_before) = << 20, 200, 10, 5, 5 >>
    /\ \A i \in 1..5 :
          /\ RelevanceOf(tick_log[t].relevance,
                         tick_log[t].memories_before[i].embedding_vector_ref) = 0
          /\ tick_log[t].memories_before[i].last_accessed >= tick_log[t].result.timestamp

\* C24: a tick on five memories of importance 20, 200, 10, 5, 5 with relevance
\* 0 and no elapsed time triggers reflection, retrieves the memories of
\* importance 200, 20 and 10 first, in that order, and plans exactly three
\* hourly blocks whose objectives name the descriptions of these three, in
\* that order.
C24_EndToEndTick ==
    \A t \in Ticks : EndToEndCase(t) =>
        LET before == tick_log[t].memories_before
            result == tick_log[t].result
        IN  /\ SumImportance(before) = 240
            /\ result.insights # << >>
            /\ Len(result.retrieved) = 5
            /\ Importances([j \in 1..3 |-> result.retrieved[j].memory]) = << 200, 20, 10 >>
            /\ Len(result.plan.hourly_plan) = 3
            /\ \A j \in 1..3 :
                  /\ result.retrieved[j].memory.description
                        = before[<< 2, 1, 3 >>[j]].description
                  /\ result.plan.hourly_plan[j].objective
                        = << "Advance:", before[<< 2, 1, 3 >>[j]].description >>

\* such a tick was made and has returned
C24_Witness ==
    /\ Len(tick_results) >= 1
    /\ EndToEndCase(1)
    /\ tick_results[1].plan.hourly_plan[1].objective = << "Advance:", "c2" >>

----------------------------------------------------------------------------
(***************************************************************************)
(* Properties of the recency score.                                        *)
(***************************************************************************)
\* the elapsed hours of a call of recency_score
Elapsed(last_accessed, now) == Max(now - last_accessed, 0)

\* C27: the recency score is in (0, 1], is exactly 1 when no time has
\* elapsed or last_accessed lies in the future, and is strictly smaller for
\* every longer elapsed time.
C27_RecencyInUnitIntervalStrictlyDecreasing ==
    called = "recency_score" =>
        LET elapsed == Elapsed(recency_call.last_accessed, recency_call.now) IN
        /\ ~ recency_call.score.zero
        /\ recency_call.score.bits >= 0
        /\ (recency_call.last_accessed >= recency_call.now) => recency_call.score = DoubleOne
        /\ \A other \in LastAccessedArgs :
              Elapsed(other, recency_call.now) > elapsed
                 => DoubleLess(RecencyDouble(other, recency_call.now), recency_call.score)

----------------------------------------------------------------------------
(***************************************************************************)
(* Properties of the dialogue.                                             *)
(***************************************************************************)
\* the two agents of the call are on the same tile
SameTile == dlgArgs.first_position = dlgArgs.second_position

\* the speaker of the turn at position i of a transcript
SpeakerAt(i) == IF i % 2 = 1 THEN dlgArgs.first_agent ELSE dlgArgs.second_agent
ListenerAt(i) == IF i % 2 = 1 THEN dlgArgs.second_agent ELSE dlgArgs.first_agent

\* C26: between two agents on the same tile run_dialogue with turns = n
\* returns exactly n turns (none for n below 0) whose speaker and listener
\* alternate, the first agent speaking first, all with one conversation id;
\* a store with add_dialogue_turn is given every turn, in transcript order,
\* before the next speaker is asked; between two agents on different tiles
\* it returns an empty transcript and calls neither an agent nor the store.
C26_AlternatingTurnsPersistedInOrder ==
    /\ (dlgPc = "returned" /\ SameTile) =>
          /\ Len(dlgResult) = Max(dlgArgs.turns, 0)
          /\ dlgResult = transcript
          /\ Len(asked) = Len(dlgResult)
          /\ \A i \in 1..Len(dlgResult) :
                /\ dlgResult[i].speaker_id = SpeakerAt(i)
                /\ dlgResult[i].listener_id = ListenerAt(i)
                /\ dlgResult[i].conversation_id = dlgResult[1].conversation_id
                /\ dlgArgs.conversation_id # ""
                      => dlgResult[i].conversation_id = dlgArgs.conversation_id
                /\ asked[i].speaker = SpeakerAt(i)
          /\ Persists(dlgArgs.store) => added_turns = dlgResult
    /\ (dlgPc # "idle" /\ SameTile /\ Persists(dlgArgs.store)) =>
          /\ added_turns = SubSeq(transcript, 1, Len(added_turns))
          /\ \A i \in 1..Len(asked) : asked[i].added = i - 1
    /\ ~ Persists(dlgArgs.store) => added_turns = << >>
    /\ (dlgPc # "idle" /\ ~ SameTile) =>
          /\ dlgPc = "returned"
          /\ dlgResult = << >>
          /\ asked = << >>
          /\ added_turns = << >>

\* a dialogue of three turns with a store has returned
C26_Witness ==
    /\ dlgPc = "returned"
    /\ SameTile
    /\ dlgArgs.turns = 3
    /\ dlgArgs.first_agent # dlgArgs.second_agent
    /\ Persists(dlgArgs.store)
    /\ Len(added_turns) = 3
    /\ added_turns[2].speaker_id = dlgArgs.second_agent
    /\ added_turns[1].utterance # added_turns[2].utterance

----------------------------------------------------------------------------
(***************************************************************************)
(* Properties of the store.                                                *)
(***************************************************************************)
\* C25: upsert_memory is idempotent by memory id: after the same memory
\* dictionary, with an id, was upserted a second time the memory is stored
\* with the fields and the evidence pointers it had after the first time,
\* and get_agent_memories returns one memory per id.
C25_UpsertMemoryIdempotent ==
    /\ \A i \in 2..Len(upsert_log) :
          (/\ upsert_log[i].memory = upsert_log[i - 1].memory
           /\ upsert_log[i].memory.memory_id # "")
             => upsert_log[i].stored = upsert_log[i - 1].stored
    /\ \A i, j \in 1..Len(got.memories) :
          i # j => got.memories[i].memory_id # got.memories[j].memory_id

----------------------------------------------------------------------------
(***************************************************************************)
(* Properties of the scheduler's sleeps, of its population and of stop().  *)
(***************************************************************************)
\* C31: run sleeps only between two rounds it executes: a sleep after round
\* k begins after snapshot k was published and before any tick of round k+1,
\* a run that returns has slept after every round but its last and not after
\* its last, also when that round is the last because stop() was called
\* during it.
C31_SleepsOnlyBetweenExecutedRounds ==
    /\ \A k \in sleeps :
          /\ tick_interval_s > 0
          /\ Len(history) >= k + 1
          /\ history[k + 1].tick_index = k
          /\ (runPc = "sleep" /\ tick_index = k)
                => (k + 1 \in Rounds => tickBegun[k + 1] = {})
          /\ stopAt # [round |-> k, during |-> "gather"]
    /\ (runPc = "returned" /\ total_ticks >= 1 /\ stopAt.during # "sleep")
          => sleeps = IF tick_interval_s > 0
                        THEN {k \in Rounds : k + 1 < Len(returnValue)}
                        ELSE {}

\* the objects the snapshot of round k holds an output of
TickedObjects(k) ==
    {history[k + 1].agent_outputs[id].agent : id \in DOMAIN history[k + 1].agent_outputs}

\* C33: the scheduler drives the agents it was constructed with: the number
\* of registered agents is that of the agents passed and lies in 5..25, the
\* effective max_concurrency does not exceed it, and every round ticks every
\* agent passed - also when two of them carry the same agent_id.
C33_PopulationIsTheListPassed ==
    phase = "constructed" =>
        /\ Cardinality(DOMAIN agents) = Len(ctorArgs.agents)
        /\ MinAgents <= Cardinality(DOMAIN agents)
        /\ Cardinality(DOMAIN agents) <= MaxAgents
        /\ max_concurrency <= Cardinality(DOMAIN agents)
        /\ \A k \in Rounds :
              k < Len(history) => TickedObjects(k) = DOMAIN ctorArgs.agents


\* C32: with ticks and callbacks that all return, a run that has started
\* returns, for every accepted max_concurrency and population: a task
\* waiting for or holding the write lock holds a slot of the semaphore, a
\* run that has returned has left the lock and every slot free, and every
\* task of every round it executed has finished.
C32_RunTerminates ==
    /\ [](\A id \in DOMAIN tasks :
             tasks[id].pc \in {"lockwait", "persisting"} => id \in Holders)
    /\ [](runPc = "returned" /\ total_ticks >= 1
             => /\ semaphore = max_concurrency /\ ~ write_lock
                /\ \A k \in Rounds : k < Len(returnValue) => taskEnded[k] = DOMAIN agents)
    /\ (runPc = "gather") ~> (runPc = "returned")

C32_Witness ==
    /\ runPc = "returned"
    /\ Len(returnValue) = MaxTicks
    /\ max_concurrency = 1
    /\ persist_callback
    /\ Cardinality(DOMAIN agents) = MinAgents
    /\ \A k \in Rounds : taskEnded[k] = DOMAIN agents

\* C34: a stop() called before run() is not remembered: the run that follows
\* sets the running flag again and, unless stop() is called during it,
\* executes every one of its total_ticks rounds.
C34_StopBeforeRunForgotten ==
    (stopped_idle /\ stopAt = NoStop) =>
        /\ runPc \in {"gather", "sleep"} => running
        /\ (runPc = "returned" /\ total_ticks >= 1) =>
              /\ Len(returnValue) = total_ticks
              /\ \A k \in 0..(total_ticks - 1) : returnValue[k + 1].tick_index = k

C34_Witness ==
    /\ stopped_idle
    /\ stopAt = NoStop
    /\ runPc = "returned"
    /\ total_ticks = MaxTicks
    /\ Len(returnValue) = MaxTicks


----------------------------------------------------------------------------
(***************************************************************************)
(* Further properties of the perception cache.                             *)
(***************************************************************************)
\* the last capture_and_describe call of agent a has returned
LastCaptureReturned(a) ==
    /\ captures[a] # << >>
    /\ a \notin DOMAIN inference
    /\ captures[a][Len(captures[a])].outcome = "returned"

\* C35: once a capture_and_describe call of agent a has returned, a's cached
\* image_hash is the fingerprint of the image that call captured, whether
\* the call ran inference or returned the cached description.
C35_CachedHashIsLastCaptured ==
    \A a \in PerceptionAgents :
        LastCaptureReturned(a)
            => cache[a].image_hash = captures[a][Len(captures[a])].hash

\* the captures of agent a whose backend call returned
InferredCaptures(a) ==
    {i \in 1..Len(captures[a]) :
        captures[a][i].inferred /\ captures[a][i].outcome = "returned"}

\* C35 (amended): once a capture_and_describe call of agent a has returned,
\* a's cached image_hash is the fingerprint of the image captured by a's
\* last call whose inference returned - the image the cached description
\* describes: the fingerprint of the returning call itself if it ran
\* inference, and otherwise one that matches the call's fingerprint in at
\* least the fraction 1 - change_threshold of its positions.
C35_CachedHashIsLastInferred ==
    \A a \in PerceptionAgents :
        LastCaptureReturned(a)
            => LET last == captures[a][Len(captures[a])]
                   i == CHOOSE i \in InferredCaptures(a) :
                           \A j \in InferredCaptures(a) : j <= i
               IN  /\ InferredCaptures(a) # {}
                   /\ cache[a].image_hash = captures[a][i].hash
                   /\ last.inferred => cache[a].image_hash = last.hash
                   /\ ~ last.inferred
                         => ~ Changed(HashSimilarity(cache[a].image_hash, last.hash),
                                      change_threshold)

\* agent a has returned the cached description for an image whose
\* fingerprint is not the cached one
C35_Witness ==
    \E a \in PerceptionAgents :
        /\ LastCaptureReturned(a)
        /\ Len(captures[a]) = 2
        /\ ~ captures[a][2].inferred
        /\ captures[a][2].hash # captures[a][1].hash
        /\ cache[a].image_hash = captures[a][1].hash

\* C36: with glance_interval_ticks = N >= 1, once a call of agent a has
\* returned a's ticks_since_inference lies in 0..N-1, and no N consecutive
\* calls of a return the cached description; with N <= 1 every call runs
\* inference.
C36_CounterBelowGlanceInterval ==
    \A a \in PerceptionAgents :
        /\ (glance_interval_ticks >= 1 /\ LastCaptureReturned(a))
              => cache[a].ticks_since_inference \in 0..(glance_interval_ticks - 1)
        /\ glance_interval_ticks >= 1
              => ~ \E i \in 1..Len(captures[a]) :
                      /\ i + glance_interval_ticks - 1 <= Len(captures[a])
                      /\ \A j \in i..(i + glance_interval_ticks - 1) :
                            ~ captures[a][j].inferred
        /\ glance_interval_ticks <= 1
              => \A i \in 1..Len(captures[a]) : captures[a][i].inferred

\* agent a has returned the cached description on N-1 = 2 consecutive calls,
\* the counter standing at N-1 after the second, and inferred on the next
C36_Witness ==
    \E a \in PerceptionAgents :
        /\ glance_interval_ticks = 3
        /\ Len(captures[a]) = 4
        /\ captures[a][1].outcome = "returned"
        /\ ~ captures[a][2].inferred
        /\ ~ captures[a][3].inferred
        /\ captures[a][4].inferred
        /\ captures[a][4].hash = captures[a][1].hash
        /\ captures[a][4].outcome = "returned"
        /\ cache[a].ticks_since_inference = 0

\* a step of a capture_and_describe call of agent a: to the backend call or
\* the return of the cached description, or from the backend's answer or
\* failure to the end of the call
CaptureStep(a) ==
    \/ CaptureCalled(a)
    \/ (a \in DOMAIN inference /\ a \notin DOMAIN inference')

\* C37: a capture_and_describe call of agent a modifies a's VisionCacheState
\* only: whatever the other agents' calls in progress, their entries stay as
\* they are, present or not; a's entry exists from a's first capture on and
\* no entry is ever removed.
C37_OnlyOwnCacheEntry ==
    [][ /\ DOMAIN cache \subseteq DOMAIN cache'
        /\ \A a \in PerceptionAgents :
              /\ (a \in DOMAIN cache') <=> (captures'[a] # << >>)
              /\ CaptureStep(a)
                    => \A b \in PerceptionAgents \ {a} :
                          /\ (b \in DOMAIN cache') <=> (b \in DOMAIN cache)
                          /\ b \in DOMAIN cache => cache'[b] = cache[b]
      ]_vars

\* agent-1 makes its first capture while a call of agent-2 is waiting for
\* the backend, and the two entries differ
C37_Witness ==
    /\ "agent-2" \in DOMAIN inference
    /\ Len(captures["agent-1"]) = 1
    /\ Len(captures["agent-2"]) = 3
    /\ cache["agent-1"] # cache["agent-2"]
    /\ cache["agent-2"].last_description # NoDescription

\* the backend call of agent a's capture_and_describe call is raising
InferenceRaised(a) ==
    /\ a \in DOMAIN inference
    /\ a \notin DOMAIN inference'
    /\ captures'[a][Len(captures'[a])].outcome = "raised"

\* C38: when the vision backend raises, the call ends with the failure and
\* the agent's cached description and fingerprint are as they were before
\* the call; the agent's next call, if it captures the same image, calls
\* the backend again and does not return the cached description.
C38_FailedInferenceIsRetried ==
    [][ \A a \in PerceptionAgents :
          /\ InferenceRaised(a)
                => /\ cache'[a].last_description = cache[a].last_description
                   /\ cache'[a].image_hash = cache[a].image_hash
                   /\ llmCalls' = llmCalls
          /\ (/\ CaptureCalled(a)
              /\ captures[a] # << >>
              /\ captures[a][Len(captures[a])].outcome = "raised"
              /\ captures'[a][Len(captures'[a])].hash
                    = captures[a][Len(captures[a])].hash)
                => captures'[a][Len(captures'[a])].inferred
      ]_vars

\* a glance refresh of agent a has failed with a description cached, and
\* the next call, for the same image, has called the backend again
C38_Witness ==
    \E a \in PerceptionAgents :
        /\ glance_interval_ticks = 2
        /\ Len(captures[a]) = 4
        /\ captures[a][1].outcome = "returned"
        /\ ~ captures[a][2].inferred
        /\ captures[a][3].outcome = "raised"
        /\ captures[a][3].hash = captures[a][1].hash
        /\ captures[a][4].inferred
        /\ captures[a][4].hash = captures[a][3].hash
        /\ captures[a][4].outcome = "returned"


----------------------------------------------------------------------------
(***************************************************************************)
(* Further properties of the agent's tick and of the planner.              *)
(***************************************************************************)
\* the sum of a sequence of importance scores
SumOf(scores) ==
    LET RECURSIVE Sum(_)
        Sum(n) == IF n = 0 THEN 0 ELSE scores[n] + Sum(n - 1)
    IN  Sum(Len(scores))

\* the importance scores of the memories tick t retrieved
RetrievedImportances(t) ==
    [j \in 1..Len(tick_log[t].result.retrieved) |->
        tick_log[t].result.retrieved[j].memory.importance_score]

\* C39: a tick evaluates the reflection trigger over the batch it retrieved,
\* of at most 5 memories: it generates insights iff their importance adds up
\* to more than 150; an agent all of whose memories have importance at most
\* 30 generates no insights in any tick, stores none, and all its plans have
\* the fallback goal as their only goal, however many memories it holds.
C39_NoReflectionOnLowImportance ==
    /\ \A t \in Ticks :
          /\ Len(tick_log[t].result.retrieved) <= DefaultTopK
          /\ tick_log[t].result.insights # << >>
                <=> SumOf(RetrievedImportances(t)) > ReflectionTriggerThreshold
    /\ (\A i \in 1..Len(self_memories) : self_memories[i].importance_score <= 30)
          => /\ self_insights = << >>
             /\ \A t \in Ticks :
                   /\ tick_log[t].result.insights = << >>
                   /\ tick_log[t].result.plan.goals = << FallbackGoal >>

\* an agent holding seven memories of importance 30, 210 in all, has made
\* two ticks that each retrieved five of them, 150 in all
C39_Witness ==
    /\ Len(self_memories) = 7
    /\ \A i \in 1..7 : self_memories[i].importance_score = 30
    /\ Len(tick_log) = 2
    /\ \A t \in Ticks : SumOf(RetrievedImportances(t)) = ReflectionTriggerThreshold
    /\ tick_log[1].result.retrieved # tick_log[2].result.retrieved


\* the durations of the steps of a block
Durations(block) == [s \in 1..Len(block.actions) |-> block.actions[s].duration_minutes]

\* C40: generate_hierarchical_plan returns min(3, n) hourly blocks for n >= 1
\* retrieved memories, block i with the objective that names the description
\* of the i-th of them, and the one fallback block for n = 0; every block has
\* three steps, of 10, 15 and 5 minutes; the goals are the summaries of the
\* first up to 3 insights in their order, or the one fallback goal without
\* insights.
C40_PlanShape ==
    called = "generate_hierarchical_plan" =>
        LET n == Len(retrieved)
            blocks == agenda.hourly_plan
        IN  /\ agenda # NoAgenda
            /\ n >= 1 =>
                  /\ Len(blocks) = Min(3, n)
                  /\ \A i \in 1..Len(blocks) :
                        /\ blocks[i].objective
                              = << "Advance:", retrieved[i].memory.description >>
                        /\ blocks[i].hour_label = i
            /\ n = 0 =>
                  /\ Len(blocks) = 1
                  /\ blocks[1].objective = << "Stabilize baseline operations" >>
            /\ \A b \in 1..Len(blocks) : Durations(blocks[b]) = << 10, 15, 5 >>
            /\ insights # << >> =>
                  /\ Len(agenda.goals) = Min(3, Len(insights))
                  /\ \A i \in 1..Len(agenda.goals) : agenda.goals[i] = insights[i].summary
            /\ insights = << >> => agenda.goals = << FallbackGoal >>

\* a plan made from four retrieved memories and six insights has three
\* blocks and three goals
C40_Witness ==
    /\ called = "generate_hierarchical_plan"
    /\ Len(retrieved) = 4
    /\ Len(insights) = 6
    /\ Len(agenda.hourly_plan) = 3
    /\ Len(agenda.goals) = 3
    /\ retrieved[1].memory.description # retrieved[2].memory.description

=============================================================================
